---- MODULE Spec2Model ----
(***************************************************************************)
(* A model of the Dubbo wire-protocol codec of dubbo-serialization-node:   *)
(* the type descriptor translator (lib/utils.js), the serialization        *)
(* registry, the serialization drivers and the request packet assembler    *)
(* (lib/protocol/request.js).                                              *)
(*                                                                         *)
(* JavaScript values are tagged records: the field k names the kind and    *)
(* every kind keeps its payload in a field of its own.  A JavaScript       *)
(* string is the sequence of its characters.  A JavaScript number is       *)
(* q * 65536 + r (+ 1/2 when h), so that values beyond 32 bits can be      *)
(* written.                                                                *)
(***************************************************************************)
EXTENDS Integers, Sequences, FiniteSets, TLC

VARIABLES
  dArgs,      \* descriptor translator: the argument list handed to getJavaArgsDesc
  dOut,       \* descriptor translator: outcome of desc2classArray(getJavaArgsDesc(dArgs))
  pid,        \* packet id: the id of a Request, its header bytes 4..11, the decoded packetId
  registry,   \* which copy of the serialization registry (lib/serialize/index.js) is loaded
  lookup,     \* registry: the last lookup made and what it returned
  enc,        \* codec: the encode slot of every driver
  dec,        \* codec: the decode slot of every driver
  wire,       \* codec: the buffer the last encode handed back, or that arrived
  packet,     \* codec: what Request.decode made of the buffer
  calls,      \* codec: the encodes and arrivals so far
  sess        \* sessions: the handles serialize() gave out and what went through them

vars == <<dArgs, dOut, pid, registry, lookup, enc, dec, wire, packet, calls, sess>>

\* the variables of each part of the program
descVars == <<dArgs, dOut>>
idVars == <<pid>>

\* the parts of the program a specification leaves out stay as they are
regVars == <<registry, lookup>>
codecVars == <<enc, dec, wire, packet, calls>>
sessVars == <<sess>>
notDesc == <<idVars, regVars, codecVars, sessVars>>
notId == <<descVars, regVars, codecVars, sessVars>>
notReg == <<descVars, idVars, codecVars, sessVars>>
notCodec == <<descVars, idVars, sessVars>>
notSess == <<descVars, idVars, regVars, dec, wire, packet, calls>>

DescOff == dArgs = <<>> /\ dOut = [st |-> "off"]
IdOff == pid = [st |-> "off"]
RegOff == registry = "part_001" /\ lookup = [st |-> "off"]
CodecOff ==
  /\ enc = <<>> /\ dec = <<>> /\ wire = [st |-> "off"] /\ packet = [st |-> "off"]
  /\ calls = 0
SessOff == sess = [st |-> "off"]

(***************************************************************************)
(* JavaScript values                                                       *)
(***************************************************************************)
Undef == [k |-> "undefined"]
Null == [k |-> "null"]
Bool(b) == [k |-> "boolean", b |-> b]
Str(s) == [k |-> "string", s |-> s]
Num(q, r, h) == [k |-> "number", q |-> q, r |-> r, h |-> h]
IntNum(n) == Num(n \div 65536, n % 65536, FALSE)
Arr(a) == [k |-> "array", a |-> a]
Obj(o) == [k |-> "object", o |-> o]
DateVal == [k |-> "date"]
BufferVal == [k |-> "buffer"]
ErrorVal == [k |-> "error"]

\* the empty object literal {}
EmptyObj == Obj(<<>>)

\* JavaScript truthiness (if (v), a || b, !desc)
Truthy(x) ==
  CASE x.k = "undefined" -> FALSE
    [] x.k = "null" -> FALSE
    [] x.k = "boolean" -> x.b
    [] x.k = "string" -> Len(x.s) > 0
    [] x.k = "number" -> ~(x.q = 0 /\ x.r = 0 /\ ~x.h)
    [] OTHER -> TRUE

\* property read obj[key]: undefined when the key is absent
Prop(x, key) ==
  IF x.k = "object" /\ key \in DOMAIN x.o THEN x.o[key] ELSE Undef

\* a || b
OrElse(a, b) == IF Truthy(a) THEN a ELSE b

(***************************************************************************)
(* Strings used by the translator                                          *)
(***************************************************************************)
JavaLangObject == <<"j","a","v","a","/","l","a","n","g","/","O","b","j","e","c","t">>
JavaLangString == <<"j","a","v","a","/","l","a","n","g","/","S","t","r","i","n","g">>
JavaUtilDate == <<"j","a","v","a","/","u","t","i","l","/","D","a","t","e">>
JavaUtilArrayList == <<"j","a","v","a","/","u","t","i","l","/","A","r","r","a","y","L","i","s","t">>
JavaLangException == <<"j","a","v","a","/","l","a","n","g","/","E","x","c","e","p","t","i","o","n">>
JavaUtilHashMap == <<"j","a","v","a","/","u","t","i","l","/","H","a","s","h","M","a","p">>
UndefinedText == <<"u","n","d","e","f","i","n","e","d">>

\* s.replace(/a/g, b) for single characters a, b
ReplaceChar(s, a, b) == [i \in 1..Len(s) |-> IF s[i] = a THEN b ELSE s[i]]

\* 'L' + name + ';'
RefDesc(name) == <<"L">> \o name \o <<";">>

(***************************************************************************)
(* Type descriptor translator: lib/utils.js                                *)
(***************************************************************************)
\* primitiveMap[name], "" when the name is no primitive
primitiveMap(name) ==
  CASE name = <<"v","o","i","d">> -> "V"
    [] name = <<"b","o","o","l","e","a","n">> -> "Z"
    [] name = <<"b","y","t","e">> -> "B"
    [] name = <<"c","h","a","r">> -> "C"
    [] name = <<"d","o","u","b","l","e">> -> "D"
    [] name = <<"f","l","o","a","t">> -> "F"
    [] name = <<"i","n","t">> -> "I"
    [] name = <<"l","o","n","g">> -> "J"
    [] name = <<"s","h","o","r","t">> -> "S"
    [] OTHER -> ""

\* 2^31 is MAX_INT_31_Q * 65536
MAX_INT_31_Q == 32768

\* is.int(val): an integer-valued number
isInt(val) == val.k = "number" /\ ~val.h

\* is.long(val): an integer outside the signed 32-bit range
isLong(val) == isInt(val) /\ (val.q >= MAX_INT_31_Q \/ val.q < -MAX_INT_31_Q)

isArray(c) == Len(c) > 0 /\ c[1] = "["

getComponentType(c) == IF isArray(c) THEN Tail(c) ELSE c

\* the number of '[' the while loop of getJavaClassDesc strips
RECURSIVE ArrayDepth(_)
ArrayDepth(c) == IF isArray(c) THEN 1 + ArrayDepth(getComponentType(c)) ELSE 0

RECURSIVE StripArray(_)
StripArray(c) == IF isArray(c) THEN StripArray(getComponentType(c)) ELSE c

Brackets(n) == [i \in 1..n |-> "["]

\* the tail of getJavaClassDesc, for a value that has a $class
ClassDesc(val) ==
  LET cls == OrElse(Prop(val, "$abstractClass"), Prop(val, "$class")).s
      base == StripArray(cls)
  IN Brackets(ArrayDepth(cls)) \o
       (IF primitiveMap(base) # "" THEN <<primitiveMap(base)>>
        ELSE RefDesc(ReplaceChar(base, ".", "/")))

\* mutant: is.int is asked before is.long, so no integer is ever a long
NumberDescIntFirst(val) ==
  IF isInt(val) THEN <<"I">> ELSE IF isLong(val) THEN <<"J">> ELSE <<"D">>

\* case 'number' of getJavaClassDesc
NumberDesc(val) ==
  IF isLong(val) THEN <<"J">> ELSE IF isInt(val) THEN <<"I">> ELSE <<"D">>

getJavaClassDesc(val) ==
  CASE val.k \in {"null", "undefined"} -> RefDesc(JavaLangObject)
    [] val.k = "boolean" -> <<"Z">>
    [] val.k = "string" -> RefDesc(JavaLangString)
    [] val.k = "number" -> NumberDesc(val)
    [] val.k = "date" -> RefDesc(JavaUtilDate)
    [] val.k = "buffer" -> <<"[", "B">>
    [] val.k = "array" -> RefDesc(JavaUtilArrayList)
    [] val.k = "error" -> RefDesc(JavaLangException)
    [] val.k = "object" /\ "$class" \notin DOMAIN val.o -> RefDesc(JavaUtilHashMap)
    [] OTHER -> ClassDesc(val)

RECURSIVE getJavaArgsDesc(_)
getJavaArgsDesc(args) ==
  IF args = <<>> THEN <<>>
  ELSE getJavaClassDesc(Head(args)) \o getJavaArgsDesc(Tail(args))

\* desc[i] with a 0-based index: the text "undefined" past the end
CharAt(desc, i) == IF i >= 0 /\ i < Len(desc) THEN desc[i + 1] ELSE "undefined"

\* clazz += desc[i]
AppendChar(clazz, c) == IF c = "undefined" THEN clazz \o UndefinedText ELSE Append(clazz, c)

\* while (i < len && desc[++i] !== ';') clazz += desc[i];  yields <<clazz, i>>
RECURSIVE ClassLoop(_, _, _)
ClassLoop(desc, i, clazz) ==
  IF i < Len(desc) /\ CharAt(desc, i + 1) # ";"
  THEN ClassLoop(desc, i + 1, AppendChar(clazz, CharAt(desc, i + 1)))
  ELSE <<clazz, IF i < Len(desc) THEN i + 1 ELSE i>>

PrimitiveName(c) ==
  CASE c = "V" -> <<"v","o","i","d">>
    [] c = "Z" -> <<"b","o","o","l","e","a","n">>
    [] c = "B" -> <<"b","y","t","e">>
    [] c = "C" -> <<"c","h","a","r">>
    [] c = "D" -> <<"d","o","u","b","l","e">>
    [] c = "F" -> <<"f","l","o","a","t">>
    [] c = "I" -> <<"i","n","t">>
    [] c = "J" -> <<"l","o","n","g">>
    [] c = "S" -> <<"s","h","o","r","t">>

\* the for loop of desc2classArray from index i on, arr the entries pushed so far
RECURSIVE ScanDesc(_, _, _)
ScanDesc(desc, i, arr) ==
  IF i >= Len(desc) THEN [ok |-> TRUE, arr |-> arr]
  ELSE
    LET array == CharAt(desc, i) = "["
        j == IF array THEN i + 1 ELSE i
        type == CharAt(desc, j)
        prefix == IF array THEN <<"[">> ELSE <<>>
    IN CASE type \in {"V", "Z", "B", "C", "D", "F", "I", "J", "S"} ->
              ScanDesc(desc, j + 1, Append(arr, prefix \o PrimitiveName(type)))
         [] type = "L" ->
              LET lp == ClassLoop(desc, j, <<>>)
              IN ScanDesc(desc, lp[2] + 1,
                          Append(arr, prefix \o ReplaceChar(lp[1], "/", ".")))
         [] OTHER -> [ok |-> FALSE, err |-> "unknown class type"]

\* desc[i] when desc is an array: only a one-character string can match a case
ElementChars(a) ==
  [i \in 1..Len(a) |-> IF a[i].k = "string" /\ Len(a[i].s) = 1 THEN a[i].s[1] ELSE "?"]

\* desc2classArray(desc) for any JavaScript value desc
desc2classArray(desc) ==
  CASE ~Truthy(desc) -> [ok |-> TRUE, arr |-> <<>>]
    [] desc.k = "string" -> ScanDesc(desc.s, 0, <<>>)
    [] desc.k = "array" -> ScanDesc(ElementChars(desc.a), 0, <<>>)
    [] OTHER -> [ok |-> TRUE, arr |-> <<>>]

(***************************************************************************)
(* The translator on its own: an argument list is chosen and               *)
(* desc2classArray(getJavaArgsDesc(args)) is computed, as Request.encode   *)
(* does at lines 92-94.                                                    *)
(***************************************************************************)
MaxArgs == 4

ClassObj(cls) == Obj("$class" :> Str(cls) @@ "$" :> IntNum(1))

IntName == <<"i","n","t">>
DottedString == <<"j","a","v","a",".","l","a","n","g",".","S","t","r","i","n","g">>

\* lists up to MaxArgs are drawn from these
CoreArgValues ==
  { Bool(TRUE), IntNum(42), Str(<<"x">>), Arr(<<IntNum(1), IntNum(2)>>), Null,
    ClassObj(<<"[">> \o IntName), ClassObj(<<"[", "[">> \o IntName) }

\* every kind of value getJavaClassDesc tells apart, each tried alone as well
AllArgValues ==
  CoreArgValues \cup
  { Bool(FALSE), Undef, Str(<<>>), IntNum(0), IntNum(-7),
    Num(32767, 65535, FALSE), Num(32768, 0, FALSE),
    Num(-32768, 0, FALSE), Num(-32769, 65535, FALSE),
    Num(1, 0, TRUE), Num(-1, 65535, TRUE), Num(40000, 0, TRUE),
    DateVal, BufferVal, ErrorVal, EmptyObj, Arr(<<>>),
    Obj("path" :> Str(<<"p">>)),
    ClassObj(IntName), ClassObj(<<"l","o","n","g">>),
    ClassObj(DottedString), ClassObj(<<"[">> \o DottedString),
    ClassObj(<<"[", "[">> \o DottedString),
    ClassObj(<<"[", "[", "[">> \o <<"b","y","t","e">>),
    Obj("$class" :> Str(DottedString) @@ "$abstractClass" :> Str(<<"[">> \o IntName)) }

Translate(args) ==
  LET desc == getJavaArgsDesc(args)
  IN [st |-> "done", desc |-> desc, res |-> desc2classArray(Str(desc))]

DescInit ==
  /\ dArgs = <<>>
  /\ dOut = [st |-> "idle"]
  /\ IdOff /\ RegOff /\ CodecOff /\ SessOff

\* the caller adds one more argument to the call
DescPush ==
  /\ dOut.st = "idle"
  /\ \E v \in AllArgValues :
       /\ \/ dArgs = <<>>
          \/ (dArgs # <<>> /\ Len(dArgs) < MaxArgs /\ v \in CoreArgValues
              /\ dArgs[1] \in CoreArgValues)
       /\ dArgs' = Append(dArgs, v)
  /\ UNCHANGED <<dOut, notDesc>>

\* desc = getJavaArgsDesc(args); types = desc2classArray(desc)
DescTranslate ==
  /\ dOut.st = "idle"
  /\ dOut' = Translate(dArgs)
  /\ UNCHANGED <<dArgs, notDesc>>

\* the caller goes on to another call
DescNext ==
  /\ dOut.st = "done"
  /\ dArgs' = <<>>
  /\ dOut' = [st |-> "idle"]
  /\ UNCHANGED notDesc

SpecDesc == DescInit /\ [][DescPush \/ DescTranslate \/ DescNext]_vars

(***************************************************************************)
(* The packet id: header bytes 4..11.  A signed 64-bit id is the sequence  *)
(* of its four 16-bit limbs in two's complement, most significant first.   *)
(***************************************************************************)
HighByte(limb) == limb \div 256
LowByte(limb) == limb % 256

\* bytes.putLong(this.id): the high 32-bit word, then the low one, big-endian
putLong(id) ==
  << HighByte(id[1]), LowByte(id[1]), HighByte(id[2]), LowByte(id[2]),
     HighByte(id[3]), LowByte(id[3]), HighByte(id[4]), LowByte(id[4]) >>

\* buf.readInt32BE(off) with off a 0-based offset: a signed 32-bit value
readInt32BE(buf, off) ==
  (IF buf[off + 1] >= 128 THEN buf[off + 1] - 256 ELSE buf[off + 1]) * 16777216
    + buf[off + 2] * 65536 + buf[off + 3] * 256 + buf[off + 4]

\* new Long(low, high)
Long(low, high) == [low |-> low, high |-> high]

\* the 64-bit value of a Long: high * 2^32 + (low >>> 0)
LongLimbs(val) ==
  << (val.high \div 65536) % 65536, val.high % 65536,
     (val.low \div 65536) % 65536, val.low % 65536 >>

\* MAX_SAFE_INT = Long.fromNumber(2^53 - 1): high 0x1FFFFF, low -1
MAX_SAFE_INT == Long(-1, 2097151)

\* utils.handleLong: a number when it is a safe integer, else its decimal string
handleLong(val) ==
  LET notSafeInt ==
        \/ val.high > MAX_SAFE_INT.high
        \/ (val.high = MAX_SAFE_INT.high /\ val.low > MAX_SAFE_INT.low)
        \/ val.high < -1 * MAX_SAFE_INT.high
        \/ (val.high = -1 * MAX_SAFE_INT.high /\ val.low < -1 * MAX_SAFE_INT.low)
  IN [k |-> IF notSafeInt THEN "string" ELSE "number", v |-> LongLimbs(val)]

\* mutant: the two words are read from each other's offset
decodePacketIdSwapped(buf) ==
  handleLong(Long(readInt32BE(buf, 4), readInt32BE(buf, 8)))

\* Request.decode, lines 120-123
decodePacketId(buf) ==
  handleLong(Long(readInt32BE(buf, 8), readInt32BE(buf, 4)))

\* header bytes 0..11 as Request.encode writes them (lines 70-81)
HeaderStart(flag, id) == <<218, 187, flag, 0>> \o putLong(id)

\* the limbs the ids are drawn from: the ends of the 16-bit range and the
\* limbs of the safe-integer limits
IdLimbs == {0, 1, 31, 32, 32767, 32768, 65504, 65535}
PacketIds == [1..4 -> IdLimbs]

IdInit ==
  /\ pid \in {[st |-> "new", id |-> i] : i \in PacketIds}
  /\ DescOff /\ RegOff /\ CodecOff /\ SessOff

\* Request.encode up to bytes.skip(4): the header without its length
IdEncode ==
  /\ pid.st = "new"
  /\ pid' = [st |-> "encoded", id |-> pid.id,
             hdr |-> HeaderStart(128, pid.id) \o <<0, 0, 0, 0>>]
  /\ UNCHANGED notId

\* Request.decode, lines 120-123
IdDecode ==
  /\ pid.st = "encoded"
  /\ pid' = [st |-> "decoded", id |-> pid.id, hdr |-> pid.hdr,
             packetId |-> decodePacketId(pid.hdr)]
  /\ UNCHANGED notId

SpecId == IdInit /\ [][IdEncode \/ IdDecode]_vars

(***************************************************************************)
(* The serialization registry.  The repository holds two copies of it:     *)
(* part_001 leaves the protostuff entries commented out, part_002 has      *)
(* them.  The ids come from lib/serialize/const.                           *)
(***************************************************************************)
HESSIAN2_SERIALIZATION_ID == 2
PROTOSTUFF_SERIALIZATION_ID == 12
PROTOBUF_JSON_SERIALIZATION_ID == 21
PROTOBUF_SERIALIZATION_ID == 22

\* the value of a lookup that finds no entry
NoDriver == "undefined"

\* const idToSerializations = { ... }
idToSerializations(reg) ==
  IF reg = "part_001"
  THEN (HESSIAN2_SERIALIZATION_ID :> "hessian2")
         @@ (PROTOBUF_JSON_SERIALIZATION_ID :> "protobuf-json")
         @@ (PROTOBUF_SERIALIZATION_ID :> "protobuf")
  ELSE (HESSIAN2_SERIALIZATION_ID :> "hessian2")
         @@ (PROTOBUF_JSON_SERIALIZATION_ID :> "protobuf-json")
         @@ (PROTOBUF_SERIALIZATION_ID :> "protobuf")
         @@ (PROTOSTUFF_SERIALIZATION_ID :> "protostuff")

\* const nameToSerializations = { ... }
nameToSerializations(reg) ==
  IF reg = "part_001"
  THEN [n \in {"hessian2", "protobuf-json", "protobuf"} |-> n]
  ELSE [n \in {"hessian2", "protobuf-json", "protobuf", "protostuff"} |-> n]

getSerializationById(reg, id) ==
  IF id \in DOMAIN idToSerializations(reg) THEN idToSerializations(reg)[id] ELSE NoDriver

getSerializationByName(reg, name) ==
  IF name \in DOMAIN nameToSerializations(reg) THEN nameToSerializations(reg)[name]
  ELSE NoDriver

getSerializationNameById(id) ==
  CASE id = PROTOSTUFF_SERIALIZATION_ID -> "protostuff"
    [] id = PROTOBUF_JSON_SERIALIZATION_ID -> "protobuf-json"
    [] id = PROTOBUF_SERIALIZATION_ID -> "protobuf"
    [] OTHER -> "hessian2"

\* the 5 bits of the flag byte hold the ids 0..31
SerializationIds == 0..31
CodecNames == {"hessian2", "protobuf-json", "protobuf", "protostuff", "json", "undefined"}

RegInit ==
  /\ registry \in {"part_001", "part_002"}
  /\ lookup = [st |-> "idle"]
  /\ DescOff /\ IdOff /\ CodecOff /\ SessOff

RegById ==
  /\ \E id \in SerializationIds :
       lookup' = [st |-> "byId", id |-> id, threw |-> FALSE,
                  res |-> getSerializationById(registry, id)]
  /\ UNCHANGED <<registry, notReg>>

RegByName ==
  /\ \E name \in CodecNames :
       lookup' = [st |-> "byName", name |-> name, threw |-> FALSE,
                  res |-> getSerializationByName(registry, name)]
  /\ UNCHANGED <<registry, notReg>>

RegNameById ==
  /\ \E id \in SerializationIds :
       lookup' = [st |-> "nameById", id |-> id, threw |-> FALSE,
                  res |-> getSerializationNameById(id)]
  /\ UNCHANGED <<registry, notReg>>

SpecRegistry == RegInit /\ [][RegById \/ RegByName \/ RegNameById]_vars

(***************************************************************************)
(* What the drivers put on the wire.  A buffer is its 16 header bytes      *)
(* (head, a sequence of byte values) followed by the cells of its body;    *)
(* a cell is one value as a driver lays it out, with its size in bytes.    *)
(***************************************************************************)
\* type tags, as the strings the code passes around
StringValueT == <<"S","t","r","i","n","g","V","a","l","u","e">>
BoolValueT == <<"B","o","o","l","V","a","l","u","e">>
Int32ValueT == <<"I","n","t","3","2","V","a","l","u","e">>
Int64ValueT == <<"I","n","t","6","4","V","a","l","u","e">>
DoubleValueT == <<"D","o","u","b","l","e","V","a","l","u","e">>
ArrayValueT == <<"A","r","r","a","y","V","a","l","u","e">>
HashMapT == <<"H","a","s","h","M","a","p">>
AnyValT == <<"A","n","y","V","a","l">>
\* no type tag: readObject(options)
NoType == <<>>

\* a value written by the tagged-binary driver
HVal(x) == [c |-> "hessian", x |-> x]
\* encoder.putRawString(v) of a string
RawCell(s) == [c |-> "raw", s |-> s]
\* JSON.stringify(x) + "\n"
JsonLine(x) == [c |-> "json", x |-> x]
\* a protobuf message m of type t behind its varint length
PbChunk(t, m) == [c |-> "pb", t |-> t, m |-> m]
\* a chunk of the Writer holding the line JSON.stringify(x) + "\n"
JsonChunk(x) == [c |-> "wjson", x |-> x]
\* n bytes of an allocated but never written buffer
JunkCell(n) == [c |-> "junk", n |-> n]

EmptyBuf == [head |-> <<>>, body |-> <<>>]

\* the integer a number stands for
NumValue(x) == x.q * 65536 + x.r

DigitChar(n) ==
  CASE n = 0 -> "0" [] n = 1 -> "1" [] n = 2 -> "2" [] n = 3 -> "3" [] n = 4 -> "4"
    [] n = 5 -> "5" [] n = 6 -> "6" [] n = 7 -> "7" [] n = 8 -> "8" [] n = 9 -> "9"

RECURSIVE DecChars(_)
DecChars(n) == IF n < 10 THEN <<DigitChar(n)>> ELSE Append(DecChars(n \div 10), DigitChar(n % 10))

\* String(x) for a number x
NumText(x) ==
  LET n == NumValue(x)
  IN IF ~x.h THEN (IF n < 0 THEN <<"-">> \o DecChars(-n) ELSE DecChars(n))
     ELSE (IF n < 0 THEN <<"-">> \o DecChars(-n - 1) ELSE DecChars(n)) \o <<".", "5">>

NumTextLen(x) == Len(NumText(x))

ObjectText == <<"[","o","b","j","e","c","t"," ","O","b","j","e","c","t","]">>

\* String(x), as string concatenation and toString() compute it
RECURSIVE ToText(_)
RECURSIVE JoinText(_, _)
ToText(x) ==
  CASE x.k = "string" -> x.s
    [] x.k = "number" -> NumText(x)
    [] x.k = "boolean" -> IF x.b THEN <<"t","r","u","e">> ELSE <<"f","a","l","s","e">>
    [] x.k = "undefined" -> UndefinedText
    [] x.k = "null" -> <<"n","u","l","l">>
    [] x.k = "array" -> JoinText(x.a, 1)
    [] OTHER -> ObjectText

\* a.join(',') from element i on
JoinText(a, i) ==
  IF i > Len(a) THEN <<>>
  ELSE (IF i > 1 THEN <<",">> ELSE <<>>)
         \o (IF a[i].k \in {"undefined", "null"} THEN <<>> ELSE ToText(a[i]))
         \o JoinText(a, i + 1)

\* what JSON.parse(JSON.stringify(x)) gives back: undefined members are
\* dropped, undefined elements become null, a Date becomes its ISO string,
\* a Buffer and an Error become plain objects
RECURSIVE JsonNorm(_)
JsonNorm(x) ==
  CASE x.k = "array" ->
         Arr([i \in 1..Len(x.a) |->
                IF x.a[i].k = "undefined" THEN Null ELSE JsonNorm(x.a[i])])
    [] x.k = "object" ->
         Obj([key \in {kk \in DOMAIN x.o : x.o[kk].k # "undefined"} |-> JsonNorm(x.o[key])])
    [] x.k = "date" -> Str(<<"1","9","7","0","-","0","1","-","0","1","T","0","0",":",
                             "0","0",":","0","0",".","0","0","0","Z">>)
    [] x.k = "buffer" -> Obj("type" :> Str(<<"B","u","f","f","e","r">>) @@ "data" :> Arr(<<>>))
    [] x.k = "error" -> EmptyObj
    [] OTHER -> x

RECURSIVE JsonLen(_)
RECURSIVE JsonMembersLen(_, _)
RECURSIVE JsonElementsLen(_, _)
\* the length of JSON.stringify(x) for a value JSON gives back
JsonLen(x) ==
  CASE x.k = "string" -> Len(x.s) + 2
    [] x.k = "number" -> NumTextLen(x)
    [] x.k = "boolean" -> IF x.b THEN 4 ELSE 5
    [] x.k = "null" -> 4
    [] x.k = "array" ->
         2 + JsonElementsLen(x.a, 1) + (IF Len(x.a) > 1 THEN Len(x.a) - 1 ELSE 0)
    [] x.k = "object" ->
         LET n == Cardinality(DOMAIN x.o)
         IN 2 + JsonMembersLen(x.o, DOMAIN x.o) + (IF n > 1 THEN n - 1 ELSE 0)
    [] OTHER -> 9

JsonElementsLen(a, i) ==
  IF i > Len(a) THEN 0 ELSE JsonLen(a[i]) + JsonElementsLen(a, i + 1)

\* "key":value for every key of the set
JsonMembersLen(o, keys) ==
  IF keys = {} THEN 0
  ELSE LET key == CHOOSE kk \in keys : TRUE
       IN Len(key) + 3 + JsonLen(o[key]) + JsonMembersLen(o, keys \ {key})

\* the size of a protobuf varint holding the 32-bit integer n
VarintLen(n) ==
  IF n < 0 THEN 10
  ELSE IF n < 128 THEN 1
  ELSE IF n < 16384 THEN 2
  ELSE IF n < 2097152 THEN 3
  ELSE IF n < 268435456 THEN 4 ELSE 5

RECURSIVE PbFieldLen(_)
RECURSIVE PbEntriesLen(_, _)
RECURSIVE PbElementsLen(_, _)
\* the bytes of field 1 of a wrapper message holding v
PbFieldLen(v) ==
  CASE v.k \in {"undefined", "null"} -> 0
    [] v.k = "string" -> 1 + VarintLen(Len(v.s)) + Len(v.s)
    [] v.k = "boolean" -> 2
    [] v.k = "number" -> IF v.h THEN 9 ELSE 1 + VarintLen(NumValue(v))
    [] v.k = "array" -> PbElementsLen(v.a, 1)
    [] v.k = "object" -> PbEntriesLen(v.o, DOMAIN v.o)
    [] OTHER -> 0

PbElementsLen(a, i) ==
  IF i > Len(a) THEN 0 ELSE PbFieldLen(a[i]) + PbElementsLen(a, i + 1)

\* one map entry per key: tag, length, key field, value field
PbEntriesLen(o, keys) ==
  IF keys = {} THEN 0
  ELSE LET key == CHOOSE kk \in keys : TRUE
       IN 2 + (2 + Len(key)) + PbFieldLen(o[key]) + PbEntriesLen(o, keys \ {key})

\* the bytes of a message: its one field, value
PbMsgLen(m) == PbFieldLen(Prop(m, "value"))

RECURSIVE HessianLen(_)
RECURSIVE HessianEntriesLen(_, _)
RECURSIVE HessianElementsLen(_, _)
\* the size of a value in the tagged-binary encoding
HessianLen(x) ==
  CASE x.k = "string" -> 1 + Len(x.s)
    [] x.k = "number" -> IF x.h THEN 9 ELSE IF isLong(x) THEN 9 ELSE 5
    [] x.k = "array" -> 2 + HessianElementsLen(x.a, 1)
    [] x.k = "object" -> 2 + HessianEntriesLen(x.o, DOMAIN x.o)
    [] x.k = "date" -> 9
    [] OTHER -> 1

HessianElementsLen(a, i) ==
  IF i > Len(a) THEN 0 ELSE HessianLen(a[i]) + HessianElementsLen(a, i + 1)

HessianEntriesLen(o, keys) ==
  IF keys = {} THEN 0
  ELSE LET key == CHOOSE kk \in keys : TRUE
       IN 1 + Len(key) + HessianLen(o[key]) + HessianEntriesLen(o, keys \ {key})

CellSize(cell) ==
  CASE cell.c = "hessian" -> HessianLen(cell.x)
    [] cell.c = "raw" -> Len(cell.s)
    [] cell.c = "json" -> JsonLen(cell.x) + 1
    [] cell.c = "pb" -> VarintLen(PbMsgLen(cell.m)) + PbMsgLen(cell.m)
    [] cell.c = "wjson" -> VarintLen(JsonLen(cell.x) + 1) + JsonLen(cell.x) + 1
    [] cell.c = "junk" -> cell.n

RECURSIVE BodySize(_)
BodySize(cells) == IF cells = <<>> THEN 0 ELSE CellSize(Head(cells)) + BodySize(Tail(cells))

\* the length of a buffer, and the position of a ByteBuffer written so far
BufLen(buf) == Len(buf.head) + BodySize(buf.body)

(***************************************************************************)
(* The drivers, encode side.  The encode slot of a driver is what its      *)
(* module keeps between calls: buf is the ByteBuffer output.bytes refers   *)
(* to; ops and len are the pending chunks and the len of the protobuf      *)
(* Writer.  The hessian driver is lib/serialize/hessian; "part_000" is the *)
(* protobuf-json driver that keeps its lines in a Writer.                  *)
(***************************************************************************)
NewSlot == [buf |-> EmptyBuf, ops |-> <<>>, len |-> 0]

\* the options object: codecType, whether options.options is there, whether
\* options.options.proto is, whether options.proto is
Options(codecType, typed, optProto, proto) ==
  [codecType |-> codecType, typed |-> typed, optProto |-> optProto, proto |-> proto]

DottedHashMap == ReplaceChar(JavaUtilHashMap, "/", ".")
DottedArrayList == ReplaceChar(JavaUtilArrayList, "/", ".")
DottedException == ReplaceChar(JavaLangException, "/", ".")

\* mapType[type] || type
mapType(type) ==
  CASE type = DottedString -> StringValueT
    [] type = DottedHashMap -> HashMapT
    [] type = DottedArrayList -> ArrayValueT
    [] type = DottedException -> AnyValT
    [] type = <<"b","o","o","l","e","a","n">> -> BoolValueT
    [] type = <<"i","n","t">> -> Int32ValueT
    [] type = <<"l","o","n","g">> -> Int64ValueT
    [] type = <<"d","o","u","b","l","e">> -> DoubleValueT
    [] OTHER -> type

\* the message types the supplied proto root defines
ProtoTypes ==
  {StringValueT, BoolValueT, Int32ValueT, Int64ValueT, DoubleValueT, ArrayValueT,
   HashMapT, AnyValT}

\* utils.findType(root, path): FALSE stands for its throw
findType(path) == path \in ProtoTypes

\* mutant: serialize() hands out the slot as the last session left it
serializeKeep(d, e) == e

\* exports.serialize
serialize(d, e) ==
  IF d \in {"protobuf", "part_000"} THEN [buf |-> EmptyBuf, ops |-> <<>>, len |-> 0]
  ELSE [e EXCEPT !.buf = EmptyBuf]

contentTypeId(d) ==
  CASE d = "hessian2" -> HESSIAN2_SERIALIZATION_ID
    [] d = "protobuf-json" -> PROTOBUF_JSON_SERIALIZATION_ID
    [] d = "protobuf" -> PROTOBUF_SERIALIZATION_ID
    [] d = "part_000" -> PROTOBUF_JSON_SERIALIZATION_ID

\* the outcome of a write: the slot after it, ok FALSE when it threw
Wrote(e) == [e |-> e, ok |-> TRUE]
Threw(e) == [e |-> e, ok |-> FALSE]

\* bytes.put(...) of header bytes
PutHead(e, bytes) == [e EXCEPT !.buf.head = @ \o bytes]
\* a write into the ByteBuffer
PutCell(e, cell) == [e EXCEPT !.buf.body = Append(@, cell)]
\* encoder.bytes(bytes) on the Writer
WriterBytes(e, cell) == [e EXCEPT !.ops = Append(@, cell), !.len = @ + CellSize(cell)]

\* the projection of the attachments by the protobuf-json driver
JsonAttachments(v) ==
  Obj("attachments" :>
        Obj("path" :> OrElse(Prop(v, "path"), Str(<<>>))
           @@ "interface" :> OrElse(Prop(v, "path"), Str(<<>>))
           @@ "group" :> OrElse(Prop(v, "group"), Str(<<>>))
           @@ "version" :> OrElse(Prop(v, "version"), Str(<<>>))))

\* the projection of the attachments by the protobuf driver: every string or
\* number entry, as a string
PbAttachments(v) ==
  IF v.k = "object"
  THEN Obj([key \in {kk \in DOMAIN v.o : v.o[kk].k \in {"string", "number"}} |->
              Str(ToText(v.o[key]))])
  ELSE EmptyObj

\* Msg.create(properties): the properties that are neither null nor undefined
PbCreate(x) ==
  IF x.k = "object"
  THEN Obj([key \in {kk \in DOMAIN x.o : x.o[kk].k \notin {"null", "undefined"}} |-> x.o[key]])
  ELSE EmptyObj

\* what the protobuf-json driver makes of a value: the value a line holds,
\* or none
JsonEncode(v, type, o) ==
  IF Truthy(v) /\ o.typed
  THEN IF Truthy(Prop(v, "$class")) /\ Truthy(Prop(v, "$")) /\ o.optProto
       THEN [wr |-> "cell", cell |-> JsonLine(JsonNorm(Prop(v, "$")))]
       ELSE IF type # NoType /\ o.optProto
       THEN [wr |-> "cell",
             cell |-> JsonLine(JsonNorm(IF type = HashMapT THEN JsonAttachments(v) ELSE v))]
       ELSE [wr |-> "none"]
  ELSE [wr |-> "none"]

\* what the protobuf driver makes of a value: a chunk, none, or a throw of
\* findType, of Object.entries(v) or of v.constructor
PbEncode(v, type, o) ==
  IF ~o.typed THEN [wr |-> "none"]
  ELSE IF Truthy(v) /\ Truthy(Prop(v, "$class")) /\ Truthy(Prop(v, "$")) /\ o.optProto
  THEN IF findType(mapType(ToText(Prop(v, "$class"))))
       THEN [wr |-> "cell",
             cell |-> PbChunk(mapType(ToText(Prop(v, "$class"))), PbCreate(Prop(v, "$")))]
       ELSE [wr |-> "throw"]
  ELSE IF type # NoType /\ o.optProto
  THEN IF ~findType(mapType(type)) \/ v.k \in {"null", "undefined"} THEN [wr |-> "throw"]
       ELSE IF mapType(type) = HashMapT
       THEN [wr |-> "cell",
             cell |-> PbChunk(HashMapT, PbCreate(Obj("value" :> PbAttachments(v))))]
       ELSE [wr |-> "cell", cell |-> PbChunk(mapType(type), PbCreate(Obj("value" :> v)))]
  ELSE [wr |-> "none"]

\* what the Writer-based protobuf-json driver makes of a value: a chunk
\* holding a line, none, or a throw of findType
WriterJsonEncode(v, type, o) ==
  IF Truthy(v) /\ o.typed
  THEN IF Truthy(Prop(v, "$class")) /\ Truthy(Prop(v, "$")) /\ o.optProto
       THEN IF findType(ToText(Prop(v, "$class")))
            THEN [wr |-> "cell", cell |-> JsonChunk(JsonNorm(PbCreate(Prop(v, "$"))))]
            ELSE [wr |-> "throw"]
       ELSE IF type # NoType /\ o.optProto
       THEN IF findType(type)
            THEN [wr |-> "cell",
                  cell |-> JsonChunk(JsonNorm(IF type = HashMapT THEN JsonAttachments(v)
                                              ELSE v))]
            ELSE [wr |-> "throw"]
       ELSE [wr |-> "none"]
  ELSE [wr |-> "none"]

\* the write of what JsonEncode, PbEncode or WriterJsonEncode made
PutEncoded(d, e, r) ==
  CASE r.wr = "none" -> Wrote(e)
    [] r.wr = "throw" -> Threw(e)
    [] r.wr = "cell" /\ d \in {"protobuf", "part_000"} -> Wrote(WriterBytes(e, r.cell))
    [] r.wr = "cell" /\ d \notin {"protobuf", "part_000"} -> Wrote(PutCell(e, r.cell))

\* mutant: a writeObject that takes the proto as supplied whatever the options
writeObjectAnyOptions(d, e, v, type, o) ==
  PutEncoded(d, e,
    CASE d = "hessian2" -> [wr |-> "cell", cell |-> HVal(v)]
      [] d = "protobuf-json" -> JsonEncode(v, type, [o EXCEPT !.typed = TRUE, !.optProto = TRUE])
      [] d = "protobuf" -> PbEncode(v, type, [o EXCEPT !.typed = TRUE, !.optProto = TRUE])
      [] d = "part_000" ->
           WriterJsonEncode(v, type, [o EXCEPT !.typed = TRUE, !.optProto = TRUE]))

writeObject(d, e, v, type, o) ==
  PutEncoded(d, e,
    CASE d = "hessian2" -> [wr |-> "cell", cell |-> HVal(v)]
      [] d = "protobuf-json" -> JsonEncode(v, type, o)
      [] d = "protobuf" -> PbEncode(v, type, o)
      [] d = "part_000" -> WriterJsonEncode(v, type, o))

writeUTF(d, e, v, o) ==
  IF d # "hessian2" /\ o.typed THEN writeObject(d, e, v, StringValueT, o)
  ELSE CASE d = "hessian2" -> Wrote(PutCell(e, HVal(v)))
         [] d = "protobuf-json" ->
              IF v.k = "string" THEN Wrote(PutCell(e, RawCell(v.s))) ELSE Threw(e)
         [] d = "protobuf" ->
              Wrote([PutCell(e, PbChunk(StringValueT, PbCreate(Obj("value" :> v))))
                       EXCEPT !.len = @ + 4])
         [] d = "part_000" -> Threw(e)

\* what the len of the output of the hessian driver is: the driver may have
\* none, count every byte of the buffer, or count the bytes of the values written
HessianLenKinds == {"absent", "position", "payload"}
HessianLenKind == IF sess.st = "dflt" THEN sess.len ELSE "absent"

\* output.len of the hessian driver; a len that is not there is written as 0
HessianOutLen(e) ==
  CASE HessianLenKind = "absent" -> 0
    [] HessianLenKind = "position" -> BufLen(e.buf)
    [] HessianLenKind = "payload" -> BodySize(e.buf.body)

\* output.len
outLen(d, e) ==
  CASE d = "protobuf-json" -> BufLen(e.buf)
    [] d = "hessian2" -> HessianOutLen(e)
    [] d \in {"protobuf", "part_000"} -> e.len

\* encoder.finish().slice(0, len): the chunks, and what is left of the len
\* allocated bytes when the chunks do not fill them
finish(e) ==
  IF e.len > BodySize(e.ops) THEN Append(e.ops, JunkCell(e.len - BodySize(e.ops)))
  ELSE e.ops

\* output.get()
outGet(d, e) ==
  CASE d = "protobuf" /\ BufLen(e.buf) <= 16 ->
         [head |-> e.buf.head, body |-> e.buf.body \o finish(e)]
    [] d = "part_000" -> [head |-> e.buf.head, body |-> e.buf.body \o e.ops]
    [] OTHER -> e.buf

(***************************************************************************)
(* The drivers, decode side.  The decode slot of a driver is the reader    *)
(* its module keeps: the buffer it was given, how many header bytes and    *)
(* how many body cells it has gone past.                                   *)
(***************************************************************************)
NoDecoder == [set |-> FALSE]

\* exports.deserialize
deserialize(d, buf) == [set |-> TRUE, buf |-> buf, hpos |-> 0, bpos |-> 0]

\* input.skip(n), within the header
skip(ds, n) == [ds EXCEPT !.hpos = @ + n]

\* the outcome of a read: the slot after it, ok FALSE when it threw, the value
Got(ds, v) == [ds |-> ds, ok |-> TRUE, v |-> v]
Failed(ds) == [ds |-> ds, ok |-> FALSE, v |-> Undef]

\* the wire type of the one field of a message type
PbWireKind(t) ==
  CASE t \in {StringValueT, AnyValT} -> "bytes"
    [] t \in {BoolValueT, Int32ValueT, Int64ValueT} -> "varint"
    [] t = DoubleValueT -> "fixed64"
    [] t = HashMapT -> "map"
    [] OTHER -> "repeated"

\* whether Msg.decode(buf) of the message type t returns for the chunk
DirectOk(t, cell) == cell.c = "pb" /\ PbWireKind(cell.t) = PbWireKind(t)

\* whether Msg.decodeDelimited(content) returns: content is the length of the
\* chunk and the chunk, so what is decoded are the bytes of the chunk again
DelimitedOk(t, cell) == DirectOk(t, cell)

\* Msg.toObject(msg, conversionOptions).value: defaults are filled in and
\* longs come back as strings
PbValue(t, m) ==
  LET v == Prop(m, "value")
  IN CASE v.k # "undefined" /\ t = Int64ValueT /\ v.k = "number" -> Str(NumText(v))
       [] v.k # "undefined" /\ ~(t = Int64ValueT /\ v.k = "number") -> v
       [] v.k = "undefined" /\ t \in {StringValueT, AnyValT} -> Str(<<>>)
       [] v.k = "undefined" /\ t = BoolValueT -> Bool(FALSE)
       [] v.k = "undefined" /\ t = Int32ValueT -> IntNum(0)
       [] v.k = "undefined" /\ t = Int64ValueT -> Str(<<"0">>)
       [] v.k = "undefined" /\ t = DoubleValueT -> IntNum(0)
       [] v.k = "undefined" /\ t = HashMapT -> EmptyObj
       [] OTHER -> Arr(<<>>)

\* the index of the first JSON line among the cells from index i on, 0 if none
RECURSIVE NextLine(_, _)
NextLine(body, i) ==
  IF i > Len(body) THEN 0
  ELSE IF body[i].c = "json" THEN i ELSE NextLine(body, i + 1)

readObject(d, ds, o, type) ==
  CASE d = "hessian2" ->
         IF ds.bpos < Len(ds.buf.body)
         THEN Got([ds EXCEPT !.bpos = @ + 1], ds.buf.body[ds.bpos + 1].x)
         ELSE Failed(ds)
    [] d = "protobuf-json" ->
         IF o.proto /\ type # NoType
         THEN LET idx == NextLine(ds.buf.body, ds.bpos + 1)
              IN IF idx = 0
                 THEN \* indexOf gives -1: the read of a negative size leaves the
                      \* cursor at 0 and JSON.parse('') throws
                      Failed([ds EXCEPT !.hpos = 0, !.bpos = 0])
                 ELSE IF idx > ds.bpos + 1 \/ ds.hpos < Len(ds.buf.head)
                 THEN \* other bytes before the line: no JSON text
                      Failed([ds EXCEPT !.hpos = Len(ds.buf.head), !.bpos = idx])
                 ELSE LET json == ds.buf.body[idx].x
                      IN Got([ds EXCEPT !.bpos = idx],
                             IF type = HashMapT THEN Prop(json, "attachments") ELSE json)
         ELSE Got(ds, Undef)
    [] d = "protobuf" ->
         IF o.proto /\ type # NoType
         THEN LET t == mapType(type)
              IN IF ~findType(t) THEN Failed(ds)
                 ELSE IF ds.bpos >= Len(ds.buf.body) THEN Failed(ds)
                 ELSE LET cell == ds.buf.body[ds.bpos + 1]
                          after == [ds EXCEPT !.bpos = @ + 1]
                      IN IF cell.c = "pb" /\ PbWireKind(cell.t) = PbWireKind(t)
                         THEN Got(after, PbValue(t, cell.m))
                         ELSE Failed(after)
         ELSE Got(ds, Undef)
    [] d = "part_000" ->
         IF o.proto /\ type # NoType
         THEN IF ~findType(type) \/ ds.bpos >= Len(ds.buf.body) THEN Failed(ds)
              ELSE IF DelimitedOk(type, ds.buf.body[ds.bpos + 1])
              THEN Got([ds EXCEPT !.bpos = @ + 1],
                       Prop(ds.buf.body[ds.bpos + 1].m,
                            IF type = HashMapT THEN "attachments" ELSE "value"))
              ELSE Failed([ds EXCEPT !.bpos = @ + 1])
         ELSE Got(ds, Undef)

readUTF(d, ds, o) == readObject(d, ds, o, StringValueT)

(***************************************************************************)
(* The request packet assembler: lib/protocol/request.js                   *)
(***************************************************************************)
DUBBO_VERSION == <<"2", ".", "5", ".", "3">>
HEADER_LENGTH == 16
FLAG_EVENT == 32
FLAG_TWOWAY == 64
FLAG_REQUEST == 128
SERIALIZATION_MASK == 31

\* lib/const
DEFAULT_REMOTING_SERIALIZATION == "hessian2"
DUBBO_VERSION_KEY == "dubbo"
PATH_KEY == "path"
VERSION_KEY == "version"

\* a Request: its id and the fields the constructor and the event setter set
Request(isTwoWay, isEvent, data) ==
  [id |-> <<0, 0, 0, 1>>, isTwoWay |-> isTwoWay, isEvent |-> isEvent, data |-> data]

\* an Invocation; attachments is an object
Invocation(methodName, args, attachments) ==
  [k |-> "invocation", methodName |-> methodName, args |-> args,
   attachments |-> attachments]

\* mutant: the two-way bit and the event bit change places
FlagBitsSwapped(d, req) ==
  FLAG_REQUEST + contentTypeId(d)
    + (IF req.isTwoWay THEN FLAG_EVENT ELSE 0) + (IF req.isEvent THEN FLAG_TWOWAY ELSE 0)

\* FLAG_REQUEST | contentTypeId | FLAG_TWOWAY | FLAG_EVENT: the ids are below
\* 32, so the bits are disjoint and the or is a sum
Flag(d, req) ==
  FLAG_REQUEST + contentTypeId(d)
    + (IF req.isTwoWay THEN FLAG_TWOWAY ELSE 0) + (IF req.isEvent THEN FLAG_EVENT ELSE 0)

\* the four bytes writeInt32BE(n, ...) writes, n not negative
Int32Bytes(n) ==
  << (n \div 16777216) % 256, (n \div 65536) % 256, (n \div 256) % 256, n % 256 >>

\* bytes._bytes.writeInt32BE(bodyLen, 12)
PatchLength(buf, bodyLen) ==
  [buf EXCEPT !.head = SubSeq(@, 1, 12) \o Int32Bytes(bodyLen)]

\* one write of the body
UTF(v) == [utf |-> TRUE, v |-> v, t |-> StringValueT]
ObjW(v, t) == [utf |-> FALSE, v |-> v, t |-> t]

\* the writes in order, up to the first one that throws
RECURSIVE WriteAll(_, _, _, _)
RECURSIVE WriteRest(_, _, _, _)
WriteAll(d, e, ws, o) ==
  IF ws = <<>> THEN Wrote(e)
  ELSE WriteRest(d, IF Head(ws).utf THEN writeUTF(d, e, Head(ws).v, o)
                    ELSE writeObject(d, e, Head(ws).v, Head(ws).t, o),
                 Tail(ws), o)

WriteRest(d, r, ws, o) == IF r.ok THEN WriteAll(d, r.e, ws, o) ELSE r

\* mutant: the method name is written before the service path
InvocationHeadMethodFirst(inv) ==
  << UTF(OrElse(Prop(inv.attachments, DUBBO_VERSION_KEY), Str(DUBBO_VERSION))),
     UTF(inv.methodName),
     UTF(Prop(inv.attachments, PATH_KEY)),
     UTF(OrElse(Prop(inv.attachments, VERSION_KEY), Str(<<"0", ".", "0", ".", "0">>))),
     UTF(Str(getJavaArgsDesc(inv.args))) >>

\* lines 87-93
InvocationHead(inv) ==
  << UTF(OrElse(Prop(inv.attachments, DUBBO_VERSION_KEY), Str(DUBBO_VERSION))),
     UTF(Prop(inv.attachments, PATH_KEY)),
     UTF(OrElse(Prop(inv.attachments, VERSION_KEY), Str(<<"0", ".", "0", ".", "0">>))),
     UTF(inv.methodName),
     UTF(Str(getJavaArgsDesc(inv.args))) >>

\* inv.args[i]
ArgAt(args, i) == IF i <= Len(args) THEN args[i] ELSE Undef

\* lines 96-99
InvocationTail(inv, types) ==
  [i \in 1..Len(types) |-> ObjW(ArgAt(inv.args, i), types[i])]
    \o <<ObjW(inv.attachments, HashMapT)>>

\* lines 94-99, after the five strings were written with outcome h
WriteArgs(d, h, inv, types, o) ==
  IF ~h.ok THEN h
  ELSE IF ~types.ok THEN Threw(h.e)
  ELSE WriteAll(d, h.e, InvocationTail(inv, types.arr), o)

\* lines 85-106: the body
WriteBody(d, e, req, o) ==
  IF req.data.k = "invocation"
  THEN WriteArgs(d, WriteAll(d, e, InvocationHead(req.data), o), req.data,
                 desc2classArray(Str(getJavaArgsDesc(req.data.args))), o)
  ELSE WriteAll(d, e, IF req.isEvent THEN <<UTF(Str(<<"H">>))>>
                      ELSE <<ObjW(req.data, AnyValT)>>, o)

\* line 67: codecType || Constants.DEFAULT_REMOTING_SERIALIZATION, an omitted
\* codecType being "undefined"
SelectedName(o) ==
  IF o.codecType = "undefined" THEN DEFAULT_REMOTING_SERIALIZATION ELSE o.codecType

\* line 109: which length is written, the len the driver reports or the
\* position of the buffer less the header
LengthConvention(o) ==
  IF o.codecType # DEFAULT_REMOTING_SERIALIZATION THEN "reported" ELSE "position"

\* lines 108-113
BodyLen(d, e, o) ==
  IF LengthConvention(o) = "reported" THEN outLen(d, e)
  ELSE BufLen(e.buf) - HEADER_LENGTH

\* lines 114-116, on the slot e with the body length patched in
Encoded(d, e) == [e |-> e, ok |-> TRUE, buf |-> outGet(d, e)]

\* lines 108-116, after the body was written with outcome w
EncodeEnd(d, w, o) ==
  IF w.ok THEN Encoded(d, [w.e EXCEPT !.buf = PatchLength(@, BodyLen(d, w.e, o))])
  ELSE [e |-> w.e, ok |-> FALSE, buf |-> EmptyBuf]

\* Request.encode(options) on the encode slot e of the driver d that
\* codecType names: the slot it leaves and the buffer it returns, or that it
\* threw
RequestEncode(req, o, d, e) ==
  EncodeEnd(d,
            WriteBody(d, PutHead(serialize(d, e),
                                 HeaderStart(Flag(d, req), req.id) \o <<0, 0, 0, 0>>),
                      req, o),
            o)

\* mutant: the packet type is taken from the two-way bit
packetTypeTwoWay(flag) ==
  IF (flag \div FLAG_TWOWAY) % 2 = 1 THEN "heartbeat" ELSE "request"

\* lines 132-135: (flag & FLAG_EVENT) !== 0
packetType(flag) ==
  IF (flag \div FLAG_EVENT) % 2 = 1 THEN "heartbeat" ELSE "request"

RECURSIVE ReadArgs(_, _, _, _, _)
\* lines 151-153
ReadArgs(d, ds, o, sigs, args) ==
  IF sigs = <<>> THEN Got(ds, Arr(args))
  ELSE LET r == readObject(d, ds, o, Head(sigs))
       IN IF r.ok THEN ReadArgs(d, r.ds, o, Tail(sigs), Append(args, r.v))
          ELSE Failed(r.ds)

\* Object.assign(attachments, source)
Assign(attachments, source) ==
  IF source.k = "object" THEN Obj(source.o @@ attachments.o) ELSE attachments

\* line 156
serverSignature(attachments, version) ==
  IF Truthy(version)
  THEN Str(ToText(Prop(attachments, PATH_KEY)) \o <<":">> \o ToText(version))
  ELSE Prop(attachments, PATH_KEY)

\* lines 157-163
InvocationData(methodName, version, args, sigs, attachments) ==
  Obj(("methodName" :> methodName)
      @@ ("serverSignature" :> serverSignature(attachments, version))
      @@ ("args" :> Arr(args))
      @@ ("methodArgSigs" :> Arr([i \in 1..Len(sigs) |-> Str(sigs[i])]))
      @@ ("requestProps" :> attachments))

\* lines 151-163, rest the outcome of reading the arguments and the map
ReadInvocationEnd(field, h, sigs, rest) ==
  IF ~rest.ok THEN Failed(rest.ds)
  ELSE Got(rest.ds,
           InvocationData(h[3], h[2], SubSeq(rest.v.a, 1, Len(sigs)), sigs,
                          Assign(Obj((DUBBO_VERSION_KEY :> field) @@ (PATH_KEY :> h[1])),
                                 rest.v.a[Len(sigs) + 1])))

\* lines 147-154, h the four strings read, sigs what desc2classArray made of
\* the last of them
ReadInvocationArgs(d, ds, o, field, h, sigs) ==
  IF ~sigs.ok THEN Failed(ds)
  ELSE ReadInvocationEnd(field, h, sigs.arr,
                         ReadArgs(d, ds, o, Append(sigs.arr, HashMapT), <<>>))

\* lines 140-146, head the outcome of reading path, version, methodName, desc
ReadInvocationHead(d, o, field, head) ==
  IF ~head.ok THEN Failed(head.ds)
  ELSE ReadInvocationArgs(d, head.ds, o, field, head.v.a, desc2classArray(head.v.a[4]))

\* lines 138-166, field the outcome of reading the first field
ReadRequest(d, o, field) ==
  IF field.ok /\ field.v.k = "string"
  THEN ReadInvocationHead(d, o, field.v,
         ReadArgs(d, field.ds, o,
                  <<StringValueT, StringValueT, StringValueT, StringValueT>>, <<>>))
  ELSE field

\* lines 132-167
ReadBody(d, ds, o, flag) ==
  IF packetType(flag) = "heartbeat" THEN readObject(d, ds, o, NoType)
  ELSE ReadRequest(d, o, readObject(d, ds, o, AnyValT))

\* what Request.decode throws or returns
Thrown(err) == [st |-> "throw", err |-> err]
Packet(packetId, type, data, codecType) ==
  [st |-> "ok", packetId |-> packetId, packetType |-> type, data |-> data,
   codecType |-> codecType]

\* options.codecType || 'hessian2', after line 128
ReportedCodec(sType, o) ==
  IF sType = 21 THEN "protobuf"
  ELSE IF o.codecType = "" THEN "hessian2" ELSE o.codecType

\* lines 169-179, r the outcome of reading the body
Decoded(buf, o, r) ==
  [moved |-> TRUE, ds |-> r.ds,
   pkt |-> IF r.ok
           THEN Packet(decodePacketId(buf.head), packetType(buf.head[3]), r.v,
                       ReportedCodec(buf.head[3] % (SERIALIZATION_MASK + 1), o))
           ELSE Thrown("read")]

\* Request.decode(buf, options) given the driver d the registry has for the
\* id in the flag byte: the decode slot it leaves in that driver and the
\* packet it returns or the error it throws
RequestDecode(buf, o, d) ==
  IF d = NoDriver
  THEN [moved |-> FALSE, ds |-> NoDecoder, pkt |-> Thrown("TypeError")]
  ELSE Decoded(buf, o, ReadBody(d, skip(deserialize(d, buf), HEADER_LENGTH), o, buf.head[3]))

(***************************************************************************)
(* The codec at work: requests are encoded, the buffers handed back are    *)
(* decoded with the options they were encoded with, and buffers of other   *)
(* senders arrive and are decoded.  Every call runs to its end before the  *)
(* next: the codec has no suspension point.                                *)
(***************************************************************************)
MaxCalls == 2

CodecDrivers == {"hessian2", "protobuf-json", "protobuf"}

ServicePath == <<"a", ".", "G">>
World == Str(<<"w">>)

\* attachments without a version, with an empty one, with version '1'
AttachmentsOf(version) ==
  CASE version = "absent" -> Obj(PATH_KEY :> Str(ServicePath))
    [] version = "empty" -> Obj((PATH_KEY :> Str(ServicePath)) @@ (VERSION_KEY :> Str(<<>>)))
    [] version = "1" -> Obj((PATH_KEY :> Str(ServicePath)) @@ (VERSION_KEY :> Str(<<"1">>)))

Call(args, version) ==
  Request(TRUE, FALSE, Invocation(Str(<<"f">>), args, AttachmentsOf(version)))

\* the heartbeat: request.event = null
Heartbeat(isTwoWay) == Request(isTwoWay, TRUE, Null)

Requests ==
  { Call(<<World>>, "absent"), Call(<<World>>, "empty"), Call(<<World>>, "1"),
    Call(<<>>, "1"), Call(<<World, IntNum(42)>>, "1"), Call(<<IntNum(0)>>, "1"),
    Call(<<ClassObj(<<"[", "[">> \o IntName)>>, "1"),
    Heartbeat(TRUE), Heartbeat(FALSE), Request(TRUE, TRUE, Str(<<"e">>)),
    Request(TRUE, FALSE, IntNum(7)), Request(TRUE, FALSE, Null) }

\* the options a caller encodes with: the codec named, without
\* options.options, with an empty one, with a proto in it, and with the
\* proto at the top level as well
EncodeOptions ==
  { Options("hessian2", FALSE, FALSE, FALSE) } \cup
  { Options(c, m[1], m[2], m[3]) :
      c \in {"protobuf", "protobuf-json"},
      m \in { <<FALSE, FALSE, FALSE>>, <<TRUE, FALSE, FALSE>>,
              <<TRUE, TRUE, FALSE>>, <<TRUE, TRUE, TRUE>> } }

\* the serialization ids of the buffers of other senders
ForeignIds == {0, 2, 12, 21, 22, 31}
ForeignOptions == Options("protobuf", TRUE, TRUE, TRUE)

NoRequest == [k |-> "none"]

\* the registry is the copy without the protostuff entries
CodecInit ==
  /\ registry = "part_001"
  /\ lookup = [st |-> "off"]
  /\ enc = [d \in CodecDrivers |-> NewSlot]
  /\ dec = [d \in CodecDrivers |-> NoDecoder]
  /\ wire = [st |-> "none"]
  /\ packet = [st |-> "none"]
  /\ calls = 0
  /\ DescOff /\ IdOff /\ SessOff

\* the driver slot and the buffer after an encode with outcome r
AfterEncode(req, o, d, r) ==
  /\ enc' = [enc EXCEPT ![d] = r.e]
  /\ wire' = [st |-> IF r.ok THEN "sent" ELSE "throw", own |-> TRUE, buf |-> r.buf,
              req |-> req, o |-> o]

\* req.encode(options)
Encode ==
  /\ calls < MaxCalls
  /\ \E req \in Requests, o \in EncodeOptions :
       AfterEncode(req, o, getSerializationByName(registry, o.codecType),
                   RequestEncode(req, o, getSerializationByName(registry, o.codecType),
                                 enc[getSerializationByName(registry, o.codecType)]))
  /\ packet' = [st |-> "none"]
  /\ calls' = calls + 1
  /\ UNCHANGED <<dec, registry, lookup, notCodec>>

\* a buffer of another sender arrives: a header and no body
Receive ==
  /\ calls < MaxCalls
  /\ \E id \in ForeignIds, event \in BOOLEAN :
       wire' = [st |-> "sent", own |-> FALSE,
                buf |-> [head |-> HeaderStart(FLAG_REQUEST + FLAG_TWOWAY + id
                                                + (IF event THEN FLAG_EVENT ELSE 0),
                                              <<0, 0, 0, 2>>) \o <<0, 0, 0, 0>>,
                         body |-> <<>>],
                req |-> NoRequest, o |-> ForeignOptions]
  /\ packet' = [st |-> "none"]
  /\ calls' = calls + 1
  /\ UNCHANGED <<enc, dec, registry, lookup, notCodec>>

\* the driver slot and the packet after a decode with outcome r
AfterDecode(d, r) ==
  /\ dec' = IF r.moved THEN [dec EXCEPT ![d] = r.ds] ELSE dec
  /\ packet' = r.pkt

\* the serialization id in the flag byte of a buffer
SerializationType(buf) == buf.head[3] % (SERIALIZATION_MASK + 1)

\* Request.decode(buf, options)
Decode ==
  /\ wire.st = "sent"
  /\ packet.st = "none"
  /\ AfterDecode(getSerializationById(registry, SerializationType(wire.buf)),
                 RequestDecode(wire.buf, wire.o,
                               getSerializationById(registry, SerializationType(wire.buf))))
  /\ UNCHANGED <<enc, wire, calls, registry, lookup, notCodec>>

SpecCodec == CodecInit /\ [][Encode \/ Receive \/ Decode]_vars

(***************************************************************************)
(* Encode sessions.  Two callers take handles from serialize() and use     *)
(* them step by step: every driver module keeps one encoder and one output *)
(* object, so the handle of a caller is that one object.  own is what a    *)
(* caller wrote through its handle since it took it, since[d] what any     *)
(* caller wrote to driver d since the last serialize() of d.               *)
(***************************************************************************)
MaxOps == 6

Callers == {1, 2}
SessionDrivers == {"protobuf-json", "protobuf", "part_000"}

\* the writeUTF calls a caller makes: the value and the options
SessionOptions ==
  {Options("any", FALSE, FALSE, FALSE), Options("any", TRUE, TRUE, FALSE)}
SessionWrites ==
  {[v |-> Str(<<c>>), o |-> o] : c \in {"p", "q"}, o \in SessionOptions}

NoHandle == [st |-> "idle"]

\* the slot after the write w, whether the write returned or threw
ApplyWrite(d, e, w) == writeUTF(d, e, w.v, w.o).e

RECURSIVE Replay(_, _, _, _)
\* the slot after the writes log[i..] on the slot e
Replay(d, e, log, i) ==
  IF i > Len(log) THEN e ELSE Replay(d, ApplyWrite(d, e, log[i]), log, i + 1)

\* what get() returns in a session of its own in which only log was written
Alone(d, log) == outGet(d, Replay(d, serialize(d, NewSlot), log, 1))

SessInit ==
  /\ enc = [d \in SessionDrivers |-> NewSlot]
  /\ sess = [st |-> "on", h |-> [c \in Callers |-> NoHandle],
             since |-> [d \in SessionDrivers |-> <<>>],
             last |-> "none", n |-> 0]
  /\ dec = <<>> /\ wire = [st |-> "off"] /\ packet = [st |-> "off"] /\ calls = 0
  /\ DescOff /\ IdOff /\ RegOff

\* a caller that held a handle of d and had written loses its session
Hit(hd, d) ==
  IF hd.st = "open" /\ hd.d = d /\ hd.own # <<>> THEN [hd EXCEPT !.hit = TRUE] ELSE hd

\* caller c calls serialize() of driver d
SessSerialize ==
  \E c \in Callers, d \in SessionDrivers :
    /\ sess.n < MaxOps
    /\ sess.h[c].st # "open"
    /\ enc' = [enc EXCEPT ![d] = serialize(d, enc[d])]
    /\ sess' = [sess EXCEPT
                  !.h = [x \in Callers |->
                           IF x = c THEN [st |-> "open", d |-> d, own |-> <<>>, hit |-> FALSE]
                           ELSE Hit(sess.h[x], d)],
                  !.since[d] = <<>>,
                  !.last = d,
                  !.n = @ + 1]
    /\ UNCHANGED notSess

\* caller c calls writeUTF on its handle
SessWrite ==
  \E c \in Callers, w \in SessionWrites :
    /\ sess.n < MaxOps
    /\ sess.h[c].st = "open"
    /\ enc' = [enc EXCEPT ![sess.h[c].d] = ApplyWrite(sess.h[c].d, @, w)]
    /\ sess' = [sess EXCEPT
                  !.h[c].own = Append(@, w),
                  !.since[sess.h[c].d] = Append(@, w),
                  !.last = "none",
                  !.n = @ + 1]
    /\ UNCHANGED notSess

\* caller c calls get() on its handle
SessGet ==
  \E c \in Callers :
    /\ sess.n < MaxOps
    /\ sess.h[c].st = "open"
    /\ sess' = [sess EXCEPT
                  !.h[c] = [st |-> "done", d |-> sess.h[c].d, own |-> sess.h[c].own,
                            hit |-> sess.h[c].hit,
                            log |-> sess.since[sess.h[c].d],
                            got |-> outGet(sess.h[c].d, enc[sess.h[c].d])],
                  !.last = "none",
                  !.n = @ + 1]
    /\ UNCHANGED <<enc, notSess>>

SpecSession == SessInit /\ [][SessSerialize \/ SessWrite \/ SessGet]_vars

(***************************************************************************)
(* An encode session and a decode session on one driver, step by step.     *)
(* The module of a driver keeps its encoder and its decoder in two         *)
(* variables.  get() of the protobuf-json driver returns                   *)
(* encoder._bytes.slice(0, encoder._offset), a view of the memory the     *)
(* encoder goes on writing to; get() of the protobuf driver returns a copy *)
(* (Buffer.concat).  mem is what the memory of the encoder holds, cell by  *)
(* cell: the writes of this part all have the same size.                   *)
(***************************************************************************)
MaxDuplexOps == 8

DuplexDrivers == {"protobuf-json", "protobuf"}
DuplexOptions == Options("any", TRUE, TRUE, TRUE)
DuplexWrite(c) == [v |-> Str(<<c>>), o |-> DuplexOptions]

\* whether the buffer get() returns shares the memory of the encoder
AliasedAll(d) == TRUE
Aliased(d) == d = "protobuf-json"

\* a buffer that arrived from elsewhere, holding "p" and "q"
ForeignBuf(d) ==
  [head |-> <<>>,
   body |-> IF d = "protobuf"
            THEN <<PbChunk(StringValueT, Obj("value" :> Str(<<"p">>))),
                   PbChunk(StringValueT, Obj("value" :> Str(<<"q">>)))>>
            ELSE <<JsonLine(Str(<<"p">>)), JsonLine(Str(<<"q">>))>>]

\* the cells the encoder has written so far in this session
Written(d, e) == IF d = "protobuf" THEN e.ops ELSE e.buf.body

\* the memory after the cell at position p is written
Overwrite(mem, p, cell) ==
  IF p <= Len(mem) THEN [mem EXCEPT ![p] = cell] ELSE Append(mem, cell)

\* the memory after a write took the slot to e
MemAfter(d, mem, e) ==
  IF Written(d, e) = <<>> THEN mem
  ELSE Overwrite(mem, Len(Written(d, e)), Written(d, e)[Len(Written(d, e))])

\* the bytes the decoder reads from: those of the buffer it was given, which
\* are those of the memory of the encoder when the buffer is a view of it
DecoderSees(ds, view, mem) ==
  IF view
  THEN [ds EXCEPT !.buf = [head |-> <<>>, body |-> SubSeq(mem, 1, Len(ds.buf.body))]]
  ELSE ds

RECURSIVE ReadAll(_, _, _)
\* the values readUTF gives for every cell of the buffer the slot is over
ReadAll(d, ds, vals) ==
  IF ds.bpos >= Len(ds.buf.body) THEN vals
  ELSE ReadAll(d, readUTF(d, ds, DuplexOptions).ds,
               Append(vals, readUTF(d, ds, DuplexOptions).v))

\* the values a decode of buf gives when nothing else runs
DecodedAlone(d, buf) == ReadAll(d, deserialize(d, buf), <<>>)

DuplexInit ==
  /\ \E d \in DuplexDrivers :
       /\ enc = (d :> NewSlot)
       /\ dec = (d :> NoDecoder)
       /\ sess = [st |-> "duplex", d |-> d,
                  est |-> "idle", log |-> <<>>, got |-> EmptyBuf,
                  dst |-> "idle", own |-> FALSE, view |-> FALSE, buf0 |-> EmptyBuf,
                  vals |-> <<>>, mem |-> <<>>, overlap |-> FALSE, n |-> 0]
  /\ wire = [st |-> "off"] /\ packet = [st |-> "off"] /\ calls = 0
  /\ DescOff /\ IdOff /\ RegOff

notDuplex == <<descVars, idVars, regVars, wire, packet, calls>>

\* exports.serialize
DuplexSerialize ==
  /\ sess.n < MaxDuplexOps
  /\ sess.est # "open"
  /\ enc' = [enc EXCEPT ![sess.d] = serialize(sess.d, @)]
  /\ sess' = [sess EXCEPT !.est = "open", !.log = <<>>,
                          !.overlap = @ \/ sess.dst = "open", !.n = @ + 1]
  /\ UNCHANGED <<dec, notDuplex>>

\* output.writeUTF(c, options)
DuplexWriteUTF ==
  \E c \in {"p", "q"} :
    /\ sess.n < MaxDuplexOps
    /\ sess.est = "open"
    /\ Len(sess.log) < 2
    /\ enc' = [enc EXCEPT ![sess.d] = ApplyWrite(sess.d, @, DuplexWrite(c))]
    /\ sess' = [sess EXCEPT !.log = Append(@, DuplexWrite(c)),
                            !.mem = MemAfter(sess.d, @, enc'[sess.d]),
                            !.overlap = @ \/ sess.dst = "open", !.n = @ + 1]
    /\ UNCHANGED <<dec, notDuplex>>

\* output.get()
DuplexGet ==
  /\ sess.n < MaxDuplexOps
  /\ sess.est = "open"
  /\ sess' = [sess EXCEPT !.est = "done", !.got = outGet(sess.d, enc[sess.d]),
                          !.n = @ + 1]
  /\ UNCHANGED <<enc, dec, notDuplex>>

\* exports.deserialize(buf), of a buffer from elsewhere or of the buffer the
\* last get() of this driver returned
DuplexDeserialize ==
  \E own \in BOOLEAN :
    /\ sess.n < MaxDuplexOps
    /\ sess.dst = "idle"
    /\ own => (sess.est = "done" /\ sess.got.body # <<>>)
    /\ dec' = [dec EXCEPT ![sess.d] =
                 deserialize(sess.d, IF own THEN sess.got ELSE ForeignBuf(sess.d))]
    /\ sess' = [sess EXCEPT !.dst = "open", !.own = own,
                            !.view = own /\ Aliased(sess.d),
                            !.buf0 = dec'[sess.d].buf,
                            !.overlap = @ \/ sess.est = "open", !.n = @ + 1]
    /\ UNCHANGED <<enc, notDuplex>>

\* the session after a read gave r
AfterRead(r) ==
  [sess EXCEPT !.vals = Append(@, r.v),
               !.dst = IF r.ds.bpos >= Len(sess.buf0.body) \/ ~r.ok THEN "done" ELSE "open",
               !.overlap = @ \/ sess.est = "open", !.n = @ + 1]

\* input.readUTF(options)
DuplexRead ==
  /\ sess.n < MaxDuplexOps
  /\ sess.dst = "open"
  /\ dec' = [dec EXCEPT ![sess.d] =
               [readUTF(sess.d, DecoderSees(@, sess.view, sess.mem), DuplexOptions).ds
                  EXCEPT !.buf = dec[sess.d].buf]]
  /\ sess' = AfterRead(readUTF(sess.d, DecoderSees(dec[sess.d], sess.view, sess.mem),
                               DuplexOptions))
  /\ UNCHANGED <<enc, notDuplex>>

SpecDuplex ==
  DuplexInit /\ [][DuplexSerialize \/ DuplexWriteUTF \/ DuplexGet \/ DuplexDeserialize
                     \/ DuplexRead]_vars

(***************************************************************************)
(* The id counter: utils.newId and the Request constructor.  A number is   *)
(* the sequence of its four 16-bit limbs, most significant first.          *)
(***************************************************************************)
MaxRequests == 4

ZeroId == <<0, 0, 0, 0>>
\* utility.MAX_SAFE_INTEGER: 2^53 - 1
MAX_SAFE_INTEGER == <<31, 65535, 65535, 65535>>

\* a < b
RECURSIVE LimbsLess(_, _)
LimbsLess(a, b) ==
  IF a = <<>> THEN FALSE
  ELSE IF Head(a) # Head(b) THEN Head(a) < Head(b)
  ELSE LimbsLess(Tail(a), Tail(b))

\* a + 1
RECURSIVE LimbsSucc(_)
LimbsSucc(a) ==
  IF a = <<>> THEN <<>>
  ELSE IF a[Len(a)] < 65535 THEN [a EXCEPT ![Len(a)] = @ + 1]
  ELSE Append(LimbsSucc(SubSeq(a, 1, Len(a) - 1)), 0)

\* id = id < MAX_SAFE_INTEGER ? id + 1 : 0
newId(id) == IF LimbsLess(id, MAX_SAFE_INTEGER) THEN LimbsSucc(id) ELSE ZeroId

\* the values the counter has when the first request of a run is made
CounterStarts ==
  {ZeroId, <<0, 0, 0, 65534>>, <<0, 0, 65535, 65535>>, <<31, 65535, 65535, 65533>>}

\* the ids a caller supplies
SuppliedIds == {ZeroId, <<0, 0, 0, 7>>}

NewIdInit ==
  /\ pid \in {[st |-> "ids", id |-> i, reqs |-> <<>>] : i \in CounterStarts}
  /\ DescOff /\ RegOff /\ CodecOff /\ SessOff

\* new Request(): this.id = utils.newId()
RequestNew ==
  /\ pid.st = "ids" /\ Len(pid.reqs) < MaxRequests
  /\ pid' = [pid EXCEPT !.id = newId(pid.id),
                        !.reqs = Append(@, [id |-> newId(pid.id), auto |-> TRUE,
                                            before |-> pid.id, after |-> newId(pid.id)])]
  /\ UNCHANGED notId

\* new Request(id) with id != null: this.id = id
RequestWithId ==
  \E i \in SuppliedIds :
    /\ pid.st = "ids" /\ Len(pid.reqs) < MaxRequests
    /\ pid' = [pid EXCEPT !.reqs = Append(@, [id |-> i, auto |-> FALSE, given |-> i,
                                              before |-> pid.id, after |-> pid.id])]
    /\ UNCHANGED notId

SpecNewId == NewIdInit /\ [][RequestNew \/ RequestWithId]_vars

(***************************************************************************)
(* The attachments on the wire: writeObject(v, classMap, 'HashMap',        *)
(* options) of the drivers that take a proto, in a session of its own.     *)
(***************************************************************************)
AttachDrivers == {"protobuf-json", "protobuf", "part_000"}
AttachOptions == Options("any", TRUE, TRUE, TRUE)

\* the value each attachment key has when it is there
AttachValue(key) ==
  CASE key = "timeout" -> IntNum(3)
    [] key = "async" -> Bool(TRUE)
    [] OTHER -> Str(<<"x">>)

AttachKeys == {"path", "interface", "group", "version", "timeout", "async"}

\* the attachment mappings: every set of keys
AttachMaps == {Obj([key \in keys |-> AttachValue(key)]) : keys \in SUBSET AttachKeys}

AttachInit ==
  /\ \E d \in AttachDrivers, v \in AttachMaps :
       /\ enc = (d :> NewSlot)
       /\ sess = [st |-> "attach", d |-> d, v |-> v, at |-> "new"]
  /\ dec = <<>> /\ wire = [st |-> "off"] /\ packet = [st |-> "off"] /\ calls = 0
  /\ DescOff /\ IdOff /\ RegOff

\* exports.serialize
AttachSerialize ==
  /\ sess.at = "new"
  /\ enc' = [enc EXCEPT ![sess.d] = serialize(sess.d, @)]
  /\ sess' = [sess EXCEPT !.at = "open"]
  /\ UNCHANGED notSess

\* output.writeObject(v, classMap, 'HashMap', options)
AttachWrite ==
  /\ sess.at = "open"
  /\ enc' = [enc EXCEPT ![sess.d] = writeObject(sess.d, @, sess.v, HashMapT, AttachOptions).e]
  /\ sess' = [sess EXCEPT !.at = "written"]
  /\ UNCHANGED notSess

SpecAttach == AttachInit /\ [][AttachSerialize \/ AttachWrite]_vars

(***************************************************************************)
(* readObject(options, type) of the drivers that read protobuf messages:   *)
(* the protobuf driver, its second copy in the same file, and the driver   *)
(* of part_000.  What is looked at is which decodes a read attempts:       *)
(* Msg.decode(buf), the direct one, and Msg.decodeDelimited(content).      *)
(***************************************************************************)
PbReaders == {"protobuf", "protobuf_second", "part_000"}

\* what lib/utils.js exports
UtilsExports ==
  {"newId", "concatBuffer", "handleLong", "getJavaArgsDesc", "desc2classArray",
   "findType", "findService", "crc32", "getMethodInfo", "getJavaClassname",
   "writeMethodArgs", "flatCopyTo", "treeCopyTo"}

\* the chunks a buffer holds for decoder.bytes() to hand over
PbReadCells ==
  { PbChunk(StringValueT, Obj("value" :> Str(<<"p">>))),
    PbChunk(StringValueT, EmptyObj),
    PbChunk(Int32ValueT, Obj("value" :> IntNum(7))),
    PbChunk(BoolValueT, Obj("value" :> Bool(TRUE))),
    PbChunk(DoubleValueT, Obj("value" :> Num(0, 1, TRUE))),
    PbChunk(HashMapT, Obj("value" :> Obj("path" :> Str(<<"x">>)))) }

PbReadTypes == {StringValueT, Int32ValueT, DoubleValueT, HashMapT}

\* the decodes a read attempted, whether it returned, and its value or error
ReadOutcome(attempts, ok, v, err) == [attempts |-> attempts, ok |-> ok, v |-> v, err |-> err]

\* the catch block of the protobuf driver
PbRecover(t, cell) ==
  IF "int2hex" \notin UtilsExports
  THEN ReadOutcome(<<"direct">>, FALSE, Undef, "TypeError")
  ELSE IF DelimitedOk(t, cell)
  THEN ReadOutcome(<<"direct", "delimited">>, TRUE, PbValue(t, cell.m), "")
  ELSE ReadOutcome(<<"direct", "delimited">>, FALSE, Undef, "decode")

\* input.readObject(options, type) with options.proto, on the chunk
\* decoder.bytes() returns
PbReadObject(d, type, cell) ==
  IF d = "protobuf"
  THEN IF DirectOk(mapType(type), cell)
       THEN ReadOutcome(<<"direct">>, TRUE, PbValue(mapType(type), cell.m), "")
       ELSE PbRecover(mapType(type), cell)
  ELSE IF DelimitedOk(type, cell)
       THEN ReadOutcome(<<"delimited">>, TRUE,
                        IF d = "part_000" /\ type = HashMapT
                        THEN Prop(cell.m, "attachments") ELSE Prop(cell.m, "value"), "")
       ELSE ReadOutcome(<<"delimited">>, FALSE, Undef, "decode")

PbReadInit ==
  /\ \E d \in PbReaders, cell \in PbReadCells, type \in PbReadTypes :
       /\ dec = (d :> deserialize(d, [head |-> <<>>, body |-> <<cell>>]))
       /\ sess = [st |-> "pbread", d |-> d, type |-> type, at |-> "new"]
  /\ enc = <<>> /\ wire = [st |-> "off"] /\ packet = [st |-> "off"] /\ calls = 0
  /\ DescOff /\ IdOff /\ RegOff

\* input.readObject(options, type)
PbRead ==
  /\ sess.st = "pbread" /\ sess.at = "new"
  /\ dec' = [dec EXCEPT ![sess.d].bpos = 1]
  /\ sess' = [st |-> "pbread", d |-> sess.d, type |-> sess.type, at |-> "read",
              res |-> PbReadObject(sess.d, sess.type, dec[sess.d].buf.body[1])]
  /\ UNCHANGED <<enc, notDuplex>>

SpecPbRead == PbReadInit /\ [][PbRead]_vars

(***************************************************************************)
(* The drivers that take a proto, called with options that carry none:     *)
(* one encode session and one decode session of a driver, in which writes  *)
(* and reads with the proto and without it follow each other.              *)
(***************************************************************************)
MaxNoRegOps == 3

NoRegDrivers == {"protobuf-json", "protobuf", "part_000"}

\* options with options.options.proto and options.proto
WithRegistry == Options("any", TRUE, TRUE, TRUE)
\* options without them: no options.options at all, or one without a proto
WithoutRegistry == {Options("any", FALSE, FALSE, FALSE), Options("any", TRUE, FALSE, FALSE)}

NoRegValues ==
  {Str(<<"a">>), IntNum(1), Null, Bool(FALSE),
   Obj("$class" :> Str(StringValueT) @@ "$" :> Obj("value" :> Str(<<"b">>))),
   Obj("path" :> Str(<<"x">>))}

NoRegTypes == {NoType, StringValueT, Int32ValueT, HashMapT, AnyValT}

\* the buffer the decode session is opened on
NoRegBuffer(d) ==
  [head |-> <<>>,
   body |-> IF d = "protobuf-json"
            THEN <<JsonLine(Str(<<"a">>)), JsonLine(Str(<<"b">>)), JsonLine(Str(<<"c">>))>>
            ELSE <<PbChunk(StringValueT, Obj("value" :> Str(<<"a">>))),
                   PbChunk(StringValueT, Obj("value" :> Str(<<"b">>))),
                   PbChunk(StringValueT, Obj("value" :> Str(<<"c">>)))>>]

\* output.writeInt(v, options)
writeInt(d, e, v, o) == writeObject(d, e, v, Int32ValueT, o)
\* output.writeBool(v, options)
writeBool(d, e, v, o) == writeObject(d, e, v, BoolValueT, o)

\* the writers a caller uses
NoRegWriters == {"writeObject", "writeInt", "writeBool", "writeUTF"}

\* the call of the writer w
CallWriter(w, d, e, v, type, o) ==
  CASE w = "writeObject" -> writeObject(d, e, v, type, o)
    [] w = "writeInt" -> writeInt(d, e, v, o)
    [] w = "writeBool" -> writeBool(d, e, v, o)
    [] w = "writeUTF" -> writeUTF(d, e, v, o)

\* whether the writer w hands the value to writeObject under the options o
Defers(w, o) == w # "writeUTF" \/ o.typed

NoRegInit ==
  /\ \E d \in NoRegDrivers :
       /\ enc = (d :> NewSlot)
       /\ dec = (d :> NoDecoder)
       /\ sess = [st |-> "noreg", d |-> d, at |-> "new", n |-> 0]
  /\ wire = [st |-> "off"] /\ packet = [st |-> "off"] /\ calls = 0
  /\ DescOff /\ IdOff /\ RegOff

\* exports.serialize and exports.deserialize
NoRegOpen ==
  /\ sess.st = "noreg" /\ sess.at = "new"
  /\ enc' = [enc EXCEPT ![sess.d] = serialize(sess.d, @)]
  /\ dec' = [dec EXCEPT ![sess.d] = deserialize(sess.d, NoRegBuffer(sess.d))]
  /\ sess' = [st |-> "noreg", d |-> sess.d, at |-> "open", n |-> 0]
  /\ UNCHANGED notDuplex

\* the state of the sessions after a call: what was called, the slots before
\* the call, whether the call returned, and what a read returned
AfterCall(op, w, o, res) ==
  [st |-> "noreg", d |-> sess.d, at |-> op, n |-> sess.n + 1, w |-> w, o |-> o,
   encWas |-> enc[sess.d], decWas |-> dec[sess.d], ok |-> res.ok,
   v |-> IF op \in {"read", "readNoReg"} THEN res.v ELSE Undef]

\* a write with the proto
NoRegWriteWith ==
  /\ sess.st = "noreg" /\ sess.at # "new" /\ sess.n < MaxNoRegOps
  /\ \E v \in {Str(<<"a">>), Obj("path" :> Str(<<"x">>))}, type \in {StringValueT, HashMapT} :
       LET res == writeObject(sess.d, enc[sess.d], v, type, WithRegistry)
       IN /\ enc' = [enc EXCEPT ![sess.d] = res.e]
          /\ sess' = AfterCall("write", "writeObject", WithRegistry, res)
  /\ UNCHANGED <<dec, notDuplex>>

\* a write without the proto
NoRegWriteWithout ==
  /\ sess.st = "noreg" /\ sess.at # "new" /\ sess.n < MaxNoRegOps
  /\ \E w \in NoRegWriters, v \in NoRegValues, type \in NoRegTypes, o \in WithoutRegistry :
       LET res == CallWriter(w, sess.d, enc[sess.d], v, type, o)
       IN /\ w = "writeObject" \/ type = NoType
          /\ enc' = [enc EXCEPT ![sess.d] = res.e]
          /\ sess' = AfterCall("writeNoReg", w, o, res)
  /\ UNCHANGED <<dec, notDuplex>>

\* a read with the proto
NoRegReadWith ==
  /\ sess.st = "noreg" /\ sess.at # "new" /\ sess.n < MaxNoRegOps
  /\ LET res == readObject(sess.d, dec[sess.d], WithRegistry, StringValueT)
     IN /\ dec' = [dec EXCEPT ![sess.d] = res.ds]
        /\ sess' = AfterCall("read", "readObject", WithRegistry, res)
  /\ UNCHANGED <<enc, notDuplex>>

\* a read without the proto
NoRegReadWithout ==
  /\ sess.st = "noreg" /\ sess.at # "new" /\ sess.n < MaxNoRegOps
  /\ \E type \in NoRegTypes, o \in WithoutRegistry :
       LET res == readObject(sess.d, dec[sess.d], o, type)
       IN /\ dec' = [dec EXCEPT ![sess.d] = res.ds]
          /\ sess' = AfterCall("readNoReg", "readObject", o, res)
  /\ UNCHANGED <<enc, notDuplex>>

SpecNoReg ==
  NoRegInit /\ [][NoRegOpen \/ NoRegWriteWith \/ NoRegWriteWithout
                  \/ NoRegReadWith \/ NoRegReadWithout]_vars

(***************************************************************************)
(* The translator on descriptor strings of any shape: a string is built    *)
(* character by character and handed to desc2classArray.                   *)
(***************************************************************************)
MaxDescLen == 4

\* primitives, the array and class marks, the end of a class name, characters
\* of a class name, and a character that is none of these
DescChars == {"I", "Z", "[", "L", ";", "a", "/", "Q"}

RawInit ==
  /\ dArgs = <<>>
  /\ dOut = [st |-> "building"]
  /\ IdOff /\ RegOff /\ CodecOff /\ SessOff

\* one more character of the descriptor
RawPush ==
  /\ dOut.st = "building" /\ Len(dArgs) < MaxDescLen
  /\ \E c \in DescChars : dArgs' = Append(dArgs, c)
  /\ UNCHANGED <<dOut, notDesc>>

\* utils.desc2classArray(desc)
RawTranslate ==
  /\ dOut.st = "building"
  /\ dOut' = [st |-> "raw", desc |-> dArgs, res |-> desc2classArray(Str(dArgs))]
  /\ UNCHANGED <<dArgs, notDesc>>

SpecRawDesc == RawInit /\ [][RawPush \/ RawTranslate]_vars

(***************************************************************************)
(* Request.encode with the default driver: one request is encoded with     *)
(* codecType omitted and with codecType naming the default, in either      *)
(* order.                                                                  *)
(***************************************************************************)
\* how the caller asks for the default driver
DefaultCalls == {"omitted", "explicit"}

\* encode() and encode({codecType: DEFAULT_REMOTING_SERIALIZATION})
DefaultOptions(how) ==
  IF how = "omitted" THEN Options("undefined", FALSE, FALSE, FALSE)
  ELSE Options(DEFAULT_REMOTING_SERIALIZATION, FALSE, FALSE, FALSE)

\* what is kept of an encode with outcome r: the driver that was selected, the
\* length that was written, whether encode returned, and the buffer
EncodeRecord(o, d, r) ==
  [driver |-> d, convention |-> LengthConvention(o), ok |-> r.ok, buf |-> r.buf]

DefaultInit ==
  /\ \E k \in HessianLenKinds : sess = [st |-> "dflt", len |-> k, at |-> "new"]
  /\ registry = "part_001" /\ lookup = [st |-> "off"]
  /\ enc = (DEFAULT_REMOTING_SERIALIZATION :> NewSlot)
  /\ dec = <<>> /\ wire = [st |-> "off"] /\ packet = [st |-> "off"] /\ calls = 0
  /\ DescOff /\ IdOff

\* the record of the call how of req.encode on the slot e of the driver d
DefaultEncoded(req, how, d) ==
  EncodeRecord(DefaultOptions(how), d, RequestEncode(req, DefaultOptions(how), d, enc[d]))

\* the slot of the driver d after the call how of req.encode
DefaultSlot(req, how, d) == RequestEncode(req, DefaultOptions(how), d, enc[d]).e

\* the first of the two calls of req.encode
DefaultEncodeFirst ==
  /\ sess.st = "dflt" /\ sess.at = "new"
  /\ \E req \in Requests, how \in DefaultCalls :
       LET d == getSerializationByName(registry, SelectedName(DefaultOptions(how)))
       IN /\ enc' = [enc EXCEPT ![d] = DefaultSlot(req, how, d)]
          /\ sess' = [st |-> "dflt", len |-> sess.len, at |-> "one", req |-> req,
                      res |-> (how :> DefaultEncoded(req, how, d))]
  /\ UNCHANGED <<dec, notDuplex>>

\* the other call, on the same request
DefaultEncodeSecond ==
  /\ sess.st = "dflt" /\ sess.at = "one"
  /\ \E how \in DefaultCalls \ DOMAIN sess.res :
       LET d == getSerializationByName(registry, SelectedName(DefaultOptions(how)))
       IN /\ enc' = [enc EXCEPT ![d] = DefaultSlot(sess.req, how, d)]
          /\ sess' = [sess EXCEPT !.at = "both",
                                  !.res = @ @@ (how :> DefaultEncoded(sess.req, how, d))]
  /\ UNCHANGED <<dec, notDuplex>>

SpecDefault == DefaultInit /\ [][DefaultEncodeFirst \/ DefaultEncodeSecond]_vars

(***************************************************************************)
(* The lookups of lib/utils.js with their caches: typeMap, serviceMap and  *)
(* methodMap are maps of the module, filled by findType, findService and   *)
(* getMethodInfo, which are called with one proto root or another.         *)
(***************************************************************************)
MaxLookups == 3

\* the proto roots callers pass
Roots == {"rootA", "rootB"}

\* the types and services a root defines, by path
RootTypes(root) == IF root = "rootA" THEN {"T", "U"} ELSE {"T", "V"}
RootServices(root) == IF root = "rootA" THEN {"Svc", "Only"} ELSE {"Svc"}
LookupPaths == {"T", "U", "V", "Svc", "Only"}

\* the methods of a service of a root
ServiceMethods(root, path) ==
  CASE root = "rootA" /\ path = "Svc" -> {"call", "Ping"}
    [] root = "rootA" /\ path = "Only" -> {"call"}
    [] root = "rootB" /\ path = "Svc" -> {"call"}
    [] OTHER -> {}

\* no reflection object
NoTarget == [k |-> "none"]

\* root.lookup(path): the reflection object of that root, or null
RootLookup(root, path) ==
  IF path \in RootTypes(root) \cup RootServices(root)
  THEN [k |-> "reflection", root |-> root, path |-> path]
  ELSE NoTarget

\* map.get(key)
MapGet(map, key) == IF key \in DOMAIN map THEN map[key] ELSE NoTarget

\* the outcome of a lookup: the map after it, whether it returned, and what
Found(map, target) == [map |-> map, ok |-> TRUE, target |-> target]
NotFound(map) == [map |-> map, ok |-> FALSE, target |-> NoTarget]

\* findType(root, path) on the map typeMap
findTypeIn(typeMap, root, path) ==
  IF MapGet(typeMap, path) # NoTarget THEN Found(typeMap, MapGet(typeMap, path))
  ELSE IF RootLookup(root, path) # NoTarget
  THEN Found(typeMap @@ (path :> RootLookup(root, path)), RootLookup(root, path))
  ELSE NotFound(typeMap)

\* findService(root, path) on the map serviceMap
findService(serviceMap, root, path) ==
  IF MapGet(serviceMap, path) # NoTarget THEN Found(serviceMap, MapGet(serviceMap, path))
  ELSE IF RootLookup(root, path) # NoTarget
  THEN Found(serviceMap @@ (path :> RootLookup(root, path)), RootLookup(root, path))
  ELSE NotFound(serviceMap)

\* methodName.charAt(0).toUpperCase() + methodName.slice(1)
Capitalized(methodName) ==
  CASE methodName = "ping" -> "Ping"
    [] methodName = "call" -> "Call"
    [] OTHER -> methodName

\* service.get(name): the method of the service, or undefined
ServiceGet(service, name) ==
  IF name \in ServiceMethods(service.root, service.path)
  THEN [k |-> "method", root |-> service.root, path |-> service.path, name |-> name]
  ELSE NoTarget

\* service.get(methodName) || service.get(the capitalized methodName)
MethodOf(service, methodName) ==
  IF ServiceGet(service, methodName) # NoTarget THEN ServiceGet(service, methodName)
  ELSE ServiceGet(service, Capitalized(methodName))

\* a service id: the name of the service and what follows the ':'
ServiceIds == {<<"Svc", "">>, <<"Svc", "1.0">>, <<"Only", "">>}

\* serviceId + '#' + methodName
MethodKey(serviceId, methodName) == <<serviceId, methodName>>

\* the outcome of getMethodInfo: both maps after it, whether it returned, what
MethodFound(serviceMap, methodMap, ok, target) ==
  [serviceMap |-> serviceMap, methodMap |-> methodMap, ok |-> ok, target |-> target]

\* lines 209-216, s the outcome of findService
MethodLookup(s, methodMap, key, methodName) ==
  IF ~s.ok THEN MethodFound(s.map, methodMap, FALSE, NoTarget)
  ELSE IF MethodOf(s.target, methodName) = NoTarget
  THEN MethodFound(s.map, methodMap, FALSE, NoTarget)
  ELSE MethodFound(s.map, methodMap @@ (key :> MethodOf(s.target, methodName)), TRUE,
                   MethodOf(s.target, methodName))

\* getMethodInfo(proto, serviceId, methodName) on the maps serviceMap, methodMap
getMethodInfo(serviceMap, methodMap, proto, serviceId, methodName) ==
  IF MapGet(methodMap, MethodKey(serviceId, methodName)) # NoTarget
  THEN MethodFound(serviceMap, methodMap, TRUE,
                   MapGet(methodMap, MethodKey(serviceId, methodName)))
  ELSE MethodLookup(findService(serviceMap, proto, serviceId[1]), methodMap,
                    MethodKey(serviceId, methodName), methodName)

\* the maps are empty when the module is loaded
LookupInit ==
  /\ registry = "part_001"
  /\ lookup = [st |-> "cache", typeMap |-> <<>>, serviceMap |-> <<>>, methodMap |-> <<>>,
               n |-> 0, op |-> "none"]
  /\ DescOff /\ IdOff /\ CodecOff /\ SessOff

\* the maps and the record of a call after it
AfterLookup(op, root, path, typeMap, serviceMap, methodMap, ok, target) ==
  lookup' = [st |-> "cache", typeMap |-> typeMap, serviceMap |-> serviceMap,
             methodMap |-> methodMap, n |-> lookup.n + 1, op |-> op, root |-> root,
             path |-> path, ok |-> ok, target |-> target]

\* utils.findType(root, path)
LookupType ==
  /\ lookup.st = "cache" /\ lookup.n < MaxLookups
  /\ \E root \in Roots, path \in LookupPaths :
       LET r == findTypeIn(lookup.typeMap, root, path)
       IN AfterLookup("findType", root, path, r.map, lookup.serviceMap, lookup.methodMap,
                      r.ok, r.target)
  /\ UNCHANGED <<registry, notReg>>

\* utils.findService(root, path)
LookupService ==
  /\ lookup.st = "cache" /\ lookup.n < MaxLookups
  /\ \E root \in Roots, path \in LookupPaths :
       LET r == findService(lookup.serviceMap, root, path)
       IN AfterLookup("findService", root, path, lookup.typeMap, r.map, lookup.methodMap,
                      r.ok, r.target)
  /\ UNCHANGED <<registry, notReg>>

\* utils.getMethodInfo(proto, serviceId, methodName)
LookupMethod ==
  /\ lookup.st = "cache" /\ lookup.n < MaxLookups
  /\ \E root \in Roots, serviceId \in ServiceIds, methodName \in {"call", "ping"} :
       LET r == getMethodInfo(lookup.serviceMap, lookup.methodMap, root, serviceId,
                              methodName)
       IN AfterLookup("getMethodInfo", root, <<serviceId, methodName>>, lookup.typeMap,
                      r.serviceMap, r.methodMap, r.ok, r.target)
  /\ UNCHANGED <<registry, notReg>>

SpecLookup == LookupInit /\ [][LookupType \/ LookupService \/ LookupMethod]_vars

(***************************************************************************)
(* Claims about the translator                                             *)
(***************************************************************************)
RECURSIVE LeadingBrackets(_)
LeadingBrackets(name) ==
  IF name # <<>> /\ Head(name) = "[" THEN 1 + LeadingBrackets(Tail(name)) ELSE 0

\* the array nesting level of the remote type an argument stands for
NestingLevel(val) ==
  CASE val.k = "buffer" -> 1
    [] val.k = "object" /\ "$class" \in DOMAIN val.o ->
         LeadingBrackets(OrElse(Prop(val, "$abstractClass"), Prop(val, "$class")).s)
    [] OTHER -> 0

\* C5: for every argument list, desc2classArray(getJavaArgsDesc(args)) returns
\* without error a list of args.length entries whose k-th entry carries one
\* leading '[' per array nesting level of the k-th argument.
C5_DescriptorRoundTrip ==
  dOut.st = "done" =>
    /\ dOut.res.ok
    /\ Len(dOut.res.arr) = Len(dArgs)
    /\ \A k \in 1..Len(dArgs) :
         LeadingBrackets(dOut.res.arr[k]) = NestingLevel(dArgs[k])

KindNamed(val) == val.k \in {"boolean", "number", "string", "array"}

\* the name the value kind of an argument gives
KindName(val) ==
  CASE val.k = "boolean" -> <<"b","o","o","l","e","a","n">>
    [] val.k = "number" /\ val.h -> <<"d","o","u","b","l","e">>
    [] val.k = "number" /\ ~val.h /\ val.q >= -32768 /\ val.q < 32768 -> <<"i","n","t">>
    [] val.k = "number" /\ ~val.h /\ ~(val.q >= -32768 /\ val.q < 32768) -> <<"l","o","n","g">>
    [] val.k = "string" -> DottedString
    [] val.k = "array" ->
         <<"j","a","v","a",".","u","t","i","l",".","A","r","r","a","y","L","i","s","t">>

\* C6: desc2classArray(getJavaArgsDesc(args)) names a boolean 'boolean', an
\* integer in signed 32-bit range 'int', an integer outside it 'long', a
\* non-integer number 'double', a string 'java.lang.String' and an array
\* 'java.util.ArrayList', each at the position of its argument.
C6_ValueKindNames ==
  dOut.st = "done" =>
    /\ (\A k \in 1..Len(dArgs) : KindNamed(dArgs[k])) => dOut.res.ok
    /\ dOut.res.ok =>
         /\ Len(dOut.res.arr) = Len(dArgs)
         /\ \A k \in 1..Len(dArgs) :
              KindNamed(dArgs[k]) => dOut.res.arr[k] = KindName(dArgs[k])

\* scenario C: [true, 42, "x", [1,2]]
C6_Witness ==
  /\ dOut.st = "done"
  /\ dArgs = <<Bool(TRUE), IntNum(42), Str(<<"x">>), Arr(<<IntNum(1), IntNum(2)>>)>>
  /\ dOut.res.ok
  /\ dOut.res.arr = << <<"b","o","o","l","e","a","n">>, <<"i","n","t">>, DottedString,
                       <<"j","a","v","a",".","u","t","i","l",".","A","r","r","a","y","L","i","s","t">> >>

(***************************************************************************)
(* Claims about the packet id                                              *)
(***************************************************************************)
\* C4: for every signed 64-bit id i, the id written into header bytes 4..11 as
\* a high and a low 32-bit word and rebuilt from readInt32BE(4) and
\* readInt32BE(8) is a packetId equal to i.
C4_PacketIdRoundTrip ==
  pid.st = "decoded" => pid.packetId.v = pid.id

\* a negative id whose low word has its sign bit set as well
C4_Witness ==
  /\ pid.st = "decoded"
  /\ pid.id = <<65535, 65535, 32768, 1>>
  /\ pid.hdr[5] = 255 /\ pid.hdr[9] = 128
  /\ pid.packetId.v = <<65535, 65535, 32768, 1>>

(***************************************************************************)
(* Claims about the registry                                               *)
(***************************************************************************)
Drivers == {"hessian2", "protobuf-json", "protobuf", "protostuff"}

\* C8: resolving the reserved protostuff codec, by its id through
\* getSerializationById or by its name through getSerializationByName, fails
\* explicitly: the lookup raises an error and returns no driver.
C8_ProtostuffRejected ==
  (\/ (lookup.st = "byId" /\ lookup.id = PROTOSTUFF_SERIALIZATION_ID)
   \/ (lookup.st = "byName" /\ lookup.name = "protostuff"))
    => (lookup.threw /\ lookup.res \notin Drivers)

(***************************************************************************)
(* Claims about the request packet assembler                               *)
(***************************************************************************)
\* the buffer at hand was handed back by Request.encode
OwnWire == wire.st = "sent" /\ wire.own

\* the buffer at hand is an encoded invocation and Request.decode was run on it
InvocationDecoded ==
  OwnWire /\ wire.req.data.k = "invocation" /\ packet.st \in {"ok", "throw"}

\* C1: in every buffer Request.encode returns, for every driver and payload,
\* the signed 32-bit big-endian value at offset 12 equals the number of bytes
\* after offset 16.
C1_BodyLength ==
  OwnWire => readInt32BE(wire.buf.head, 12) = BufLen(wire.buf) - HEADER_LENGTH

\* C2: for every driver and every invocation request, decoding what encode
\* returned, with the same options object, yields a 'request' packet with the
\* same methodName, the same argument list and requestProps with the same
\* path and version as the attachments of the request.
C2_RoundTrip ==
  InvocationDecoded =>
    /\ packet.st = "ok"
    /\ packet.packetType = "request"
    /\ Prop(packet.data, "methodName") = wire.req.data.methodName
    /\ Prop(packet.data, "args") = Arr(wire.req.data.args)
    /\ Prop(Prop(packet.data, "requestProps"), PATH_KEY)
         = Prop(wire.req.data.attachments, PATH_KEY)
    /\ Prop(Prop(packet.data, "requestProps"), VERSION_KEY)
         = Prop(wire.req.data.attachments, VERSION_KEY)

\* C3: an encoded and decoded invocation has as serverSignature the path alone
\* when its version attachment is empty or absent, and path + ':' + v when the
\* version attachment is the non-empty string v.
C3_ServerSignature ==
  InvocationDecoded =>
    /\ packet.st = "ok"
    /\ Prop(packet.data, "serverSignature") =
         (IF Truthy(Prop(wire.req.data.attachments, VERSION_KEY))
          THEN Str(Prop(wire.req.data.attachments, PATH_KEY).s \o <<":">>
                     \o Prop(wire.req.data.attachments, VERSION_KEY).s)
          ELSE Prop(wire.req.data.attachments, PATH_KEY))

\* C7: Request.decode on a buffer whose flag byte names no registered driver
\* fails with an UnknownCodec error: no default driver is selected and no
\* packet is returned.
C7_UnknownCodec ==
  (/\ wire.st = "sent"
   /\ SerializationType(wire.buf) \notin DOMAIN idToSerializations(registry)
   /\ packet.st \in {"ok", "throw"})
    => (packet.st = "throw" /\ packet.err = "UnknownCodec")

Done(c) == sess.st = "on" /\ sess.h[c].st = "done"

\* C10: every driver keeps its encode session in one slot shared by all
\* handles: right after any serialize() the encoded length of the driver is 0
\* and its payload empty, whatever an earlier session had written; a get()
\* returns what a fresh session would hold after the writes every caller made
\* since the last serialize() of the driver; two callers that call get() on the
\* same driver with no write in between receive the same payload
C10_SharedSession ==
  sess.st = "on" =>
    /\ sess.last \in SessionDrivers =>
          /\ outLen(sess.last, enc[sess.last]) = 0
          /\ outGet(sess.last, enc[sess.last]) = EmptyBuf
    /\ \A c \in Callers :
          Done(c) => sess.h[c].got = Alone(sess.h[c].d, sess.h[c].log)
    /\ \A c1, c2 \in Callers :
          (Done(c1) /\ Done(c2) /\ sess.h[c1].d = sess.h[c2].d
             /\ sess.h[c1].log = sess.h[c2].log)
            => sess.h[c1].got = sess.h[c2].got

\* caller 1 wrote "p" to the protobuf driver, caller 2 then called serialize()
\* and wrote "q", and both called get(): both hold the payload with "q" alone
C10_Witness ==
  /\ Done(1) /\ Done(2)
  /\ sess.h[1].d = "protobuf" /\ sess.h[2].d = "protobuf"
  /\ sess.h[1].hit
  /\ sess.h[1].own = <<[v |-> Str(<<"p">>), o |-> Options("any", FALSE, FALSE, FALSE)]>>
  /\ sess.h[2].own = <<[v |-> Str(<<"q">>), o |-> Options("any", FALSE, FALSE, FALSE)]>>
  /\ sess.h[1].got = sess.h[2].got
  /\ sess.h[1].got = Alone("protobuf", sess.h[2].own)
  /\ sess.h[1].got # Alone("protobuf", sess.h[1].own)

(***************************************************************************)
(* Claims about an encode and a decode session on one driver               *)
(***************************************************************************)
BothDone == sess.st = "duplex" /\ sess.est = "done" /\ sess.dst = "done"

\* the encoded bytes or the decoded values are not those of the encode and the
\* decode run one after the other
Differ ==
  \/ sess.got # Alone(sess.d, sess.log)
  \/ sess.vals # DecodedAlone(sess.d, sess.buf0)

C11_Overwritten ==
  /\ BothDone /\ sess.overlap /\ sess.d = "protobuf-json" /\ sess.own
  /\ sess.buf0.body = <<JsonLine(Str(<<"p">>))>>
  /\ sess.vals = <<Str(<<"q">>)>>

(***************************************************************************)
(* Claims about the id counter                                             *)
(***************************************************************************)
\* C12: of two requests made without an id, the later has the greater id, so no
\* two of them share an id; a request made with an id keeps it and leaves the
\* counter where it was
C12_MonotonicIds ==
  pid.st = "ids" =>
    /\ \A i, j \in 1..Len(pid.reqs) :
          (i < j /\ pid.reqs[i].auto /\ pid.reqs[j].auto)
            => LimbsLess(pid.reqs[i].id, pid.reqs[j].id)
    /\ \A i \in 1..Len(pid.reqs) :
          ~pid.reqs[i].auto
            => (pid.reqs[i].id = pid.reqs[i].given /\ pid.reqs[i].after = pid.reqs[i].before)

(***************************************************************************)
(* Further claims about the packet assembler                               *)
(***************************************************************************)
\* C13: the packet Request.decode returns reports as codecType the name of the
\* driver the serialization id of the flag byte selected, whatever codecType
\* the options of the caller hold
C13_ReportedCodec ==
  (wire.st = "sent" /\ packet.st = "ok")
    => packet.codecType = getSerializationById(registry, SerializationType(wire.buf))

(***************************************************************************)
(* Claims about the attachments on the wire                                *)
(***************************************************************************)
\* the cells of a session: those in output.bytes, then those in the Writer
AllCells(e) == e.buf.body \o e.ops

\* the keys of the mapping a written cell holds
WireKeys(cell) ==
  CASE cell.c = "pb" -> DOMAIN Prop(cell.m, "value").o
    [] cell.c \in {"json", "wjson"} -> DOMAIN Prop(cell.x, "attachments").o

\* C14: what writeObject of a driver that takes a proto puts on the wire for an
\* attachment mapping under the type 'HashMap' holds exactly the four keys path,
\* interface, group and version, whatever the mapping
C14_FourKeys ==
  (sess.st = "attach" /\ sess.at = "written")
    => /\ Len(AllCells(enc[sess.d])) = 1
       /\ WireKeys(AllCells(enc[sess.d])[1]) = {"path", "interface", "group", "version"}

\* the values Request.encode is to write for an invocation, in order: the five
\* strings, the arguments, the attachments
FieldsInOrder(inv) ==
  << OrElse(Prop(inv.attachments, DUBBO_VERSION_KEY), Str(DUBBO_VERSION)),
     Prop(inv.attachments, PATH_KEY),
     OrElse(Prop(inv.attachments, VERSION_KEY), Str(<<"0", ".", "0", ".", "0">>)),
     inv.methodName,
     Str(getJavaArgsDesc(inv.args)) >>
    \o inv.args \o <<inv.attachments>>

\* the type each of them is written under
TagsInOrder(inv) ==
  <<StringValueT, StringValueT, StringValueT, StringValueT, StringValueT>>
    \o desc2classArray(Str(getJavaArgsDesc(inv.args))).arr \o <<HashMapT>>

\* the body the protobuf driver makes of the fields, given the proto
ChunksInOrder(inv) ==
  [i \in 1..Len(FieldsInOrder(inv)) |->
     PbChunk(mapType(TagsInOrder(inv)[i]),
             PbCreate(Obj("value" :> IF i = Len(FieldsInOrder(inv))
                                     THEN PbAttachments(FieldsInOrder(inv)[i])
                                     ELSE FieldsInOrder(inv)[i])))]

\* an invocation went out through a driver that puts every write on the wire:
\* the hessian driver, or the protobuf driver given the proto
OrderedWire ==
  /\ OwnWire /\ wire.req.data.k = "invocation"
  /\ \/ wire.o.codecType = "hessian2"
     \/ wire.o.codecType = "protobuf" /\ wire.o.typed /\ wire.o.optProto

\* C15: for an invocation the body written after the 16 header bytes is, in
\* this order, the protocol version (or its default), the service path, the
\* service version (or '0.0.0'), the method name, the descriptor, every argument
\* under the k-th type of the descriptor, and the attachments under 'HashMap';
\* the length in the header counts all of them; Request.decode reads the fields
\* in the same order
C15_FieldOrder ==
  OrderedWire =>
    /\ Len(wire.buf.head) = HEADER_LENGTH
    /\ wire.o.codecType = "hessian2"
          => wire.buf.body = [i \in 1..Len(FieldsInOrder(wire.req.data)) |->
                                HVal(FieldsInOrder(wire.req.data)[i])]
    /\ wire.o.codecType = "protobuf" => wire.buf.body = ChunksInOrder(wire.req.data)
    /\ readInt32BE(wire.buf.head, 12) = BodySize(wire.buf.body)
    /\ (packet.st = "ok" /\ (wire.o.proto \/ wire.o.codecType = "hessian2"))
          => /\ Prop(packet.data, "methodName") = wire.req.data.methodName
             /\ Prop(packet.data, "args") = Arr(wire.req.data.args)
             /\ Prop(Prop(packet.data, "requestProps"), PATH_KEY)
                  = FieldsInOrder(wire.req.data)[2]
             /\ Prop(Prop(packet.data, "requestProps"), DUBBO_VERSION_KEY)
                  = FieldsInOrder(wire.req.data)[1]
             /\ Prop(packet.data, "serverSignature")
                  = Str(ServicePath \o <<":">> \o FieldsInOrder(wire.req.data)[3].s)

\* the call f('w', 42) went out through the protobuf driver and was decoded
C15_Witness ==
  /\ OrderedWire /\ wire.o.codecType = "protobuf" /\ wire.o.proto
  /\ wire.req = Call(<<World, IntNum(42)>>, "1")
  /\ Len(wire.buf.body) = 8
  /\ packet.st = "ok"

\* request.isHeartbeat: the event flag is set and the event is null
isHeartbeat(req) == req.isEvent /\ req.data = Null

\* C16: for a payload that is not an invocation the body is the marker 'H'
\* exactly when the request is a heartbeat; otherwise, an event with a value
\* included, it is the value written with writeObject under 'AnyVal' (which
\* the protobuf-json driver without options.options leaves out)
C16_HeartbeatMarker ==
  (OwnWire /\ wire.req.data.k # "invocation") =>
    /\ wire.o.codecType = "hessian2"
          => wire.buf.body = << HVal(IF isHeartbeat(wire.req) THEN Str(<<"H">>)
                                     ELSE wire.req.data) >>
    /\ (wire.o.codecType = "protobuf-json" /\ ~wire.o.typed)
          => wire.buf.body = IF isHeartbeat(wire.req) THEN <<RawCell(<<"H">>)>> ELSE <<>>

\* bit b (0 the lowest) of a byte
Bit(byte, b) == (byte \div (2 ^ b)) % 2 = 1

\* the driver a buffer returned by Request.encode was encoded by
EncodedBy == getSerializationByName(registry, wire.o.codecType)

\* C17: a buffer Request.encode returns starts with 0xDA 0xBB; its byte 2 has
\* bit 7 set, bit 6 set exactly when isTwoWay, bit 5 set exactly when isEvent,
\* and in its low 5 bits the id under which the registry holds the driver that
\* encoded it; Request.decode, masking byte 2 with 0x1F, opens its decode
\* session on that same driver and finds the same event bit
C17_FlagByte ==
  OwnWire =>
    /\ wire.buf.head[1] = 218 /\ wire.buf.head[2] = 187
    /\ Bit(wire.buf.head[3], 7)
    /\ Bit(wire.buf.head[3], 6) <=> wire.req.isTwoWay
    /\ Bit(wire.buf.head[3], 5) <=> wire.req.isEvent
    /\ wire.buf.head[3] % 32 \in DOMAIN idToSerializations(registry)
    /\ idToSerializations(registry)[wire.buf.head[3] % 32] = EncodedBy
    /\ packet.st \in {"ok", "throw"}
          => /\ dec[EncodedBy] = [dec[EncodedBy] EXCEPT !.set = TRUE, !.buf = wire.buf]
             /\ packet.st = "ok" => (packet.packetType = "heartbeat" <=> wire.req.isEvent)

\* a one-way heartbeat went out through the protobuf-json driver with flag
\* byte 0xB5 and was decoded by it
C17_Witness ==
  /\ OwnWire /\ wire.req = Heartbeat(FALSE) /\ wire.o.codecType = "protobuf-json"
  /\ wire.buf.head[3] = 181
  /\ packet.st = "ok" /\ dec["protobuf-json"].set

(***************************************************************************)
(* Claims about the reads of protobuf messages                             *)
(***************************************************************************)
\* the read of the chunk has been made
PbReadDone == sess.st = "pbread" /\ sess.at = "read"

\* whether the direct decode of the chunk that was read returns
ReadDirectOk ==
  DirectOk(IF sess.d = "protobuf" THEN mapType(sess.type) ELSE sess.type,
           dec[sess.d].buf.body[1])

\* C18: readObject with a type attempts the direct decode first and the
\* length-delimited decode only after the direct one has thrown; a chunk whose
\* direct decode returns is never decoded length-delimited, and a direct decode
\* that throws is not an error of the read unless the length-delimited decode
\* was attempted as well
C18_DirectFirst ==
  PbReadDone =>
    /\ sess.res.attempts # <<>> /\ sess.res.attempts[1] = "direct"
    /\ ReadDirectOk => sess.res.attempts = <<"direct">>
    /\ (~ReadDirectOk /\ ~sess.res.ok) => sess.res.attempts = <<"direct", "delimited">>

(***************************************************************************)
(* Claims about the drivers called without a proto                         *)
(***************************************************************************)
\* the last call was a write without a proto that hands over to writeObject
WroteWithoutRegistry ==
  sess.st = "noreg" /\ sess.at = "writeNoReg" /\ Defers(sess.w, sess.o)

\* the last call was a read without a proto
ReadWithoutRegistry == sess.st = "noreg" /\ sess.at = "readNoReg"

\* C19: with options that carry no proto, writeObject and the typed writers
\* that hand over to it return without throwing and leave the encoded length
\* and the bytes of the session as they were; readObject returns undefined
\* without throwing and leaves the read cursor where it was
C19_NoRegistryNoOp ==
  /\ WroteWithoutRegistry =>
        /\ sess.ok
        /\ enc[sess.d] = sess.encWas
        /\ outLen(sess.d, enc[sess.d]) = outLen(sess.d, sess.encWas)
        /\ outGet(sess.d, enc[sess.d]) = outGet(sess.d, sess.encWas)
  /\ ReadWithoutRegistry =>
        /\ sess.ok /\ sess.v = Undef
        /\ dec[sess.d] = sess.decWas

\* a write and a read without a proto, each made in a session that had
\* already written bytes, or had already read some
C19_Witness ==
  /\ WroteWithoutRegistry /\ sess.o.typed
  /\ outLen(sess.d, sess.encWas) > 0 /\ dec[sess.d].bpos > 0

\* a read without a proto in a session that had already read a value
C19_ReadWitness == ReadWithoutRegistry /\ sess.decWas.bpos > 0

(***************************************************************************)
(* Claims about the translator on descriptor strings of any shape          *)
(***************************************************************************)
\* the index of the first ';' of desc from index i on (1-based), 0 if none
RECURSIVE ClosingAt(_, _)
ClosingAt(desc, i) ==
  IF i > Len(desc) THEN 0 ELSE IF desc[i] = ";" THEN i ELSE ClosingAt(desc, i + 1)

\* whether the descriptor is malformed from the entry at index i on (1-based):
\* a '[' with nothing after it, an 'L' with no closing ';', or a character in
\* type position that is no primitive letter, no '[' and no 'L'
RECURSIVE MalformedFrom(_, _)
MalformedFrom(desc, i) ==
  IF i > Len(desc) THEN FALSE
  ELSE LET j == IF desc[i] = "[" THEN i + 1 ELSE i
       IN IF j > Len(desc) THEN TRUE
          ELSE CASE desc[j] \in {"V", "Z", "B", "C", "D", "F", "I", "J", "S"} ->
                      MalformedFrom(desc, j + 1)
                 [] desc[j] = "L" ->
                      IF ClosingAt(desc, j + 1) = 0 THEN TRUE
                      ELSE MalformedFrom(desc, ClosingAt(desc, j + 1) + 1)
                 [] desc[j] = "[" -> MalformedFrom(desc, j)
                 [] OTHER -> TRUE

\* C20: desc2classArray fails with an error on every malformed descriptor: a
\* character outside the primitive letters, '[' and 'L' in type position, a
\* '[' with nothing after it, or an 'L' with no closing ';'; it returns the
\* empty list for the empty descriptor
C20_MalformedFails ==
  dOut.st = "raw" =>
    /\ MalformedFrom(dOut.desc, 1) => ~dOut.res.ok
    /\ dOut.desc = <<>> => dOut.res = [ok |-> TRUE, arr |-> <<>>]

\* C20, without the unclosed 'L': a descriptor with an unknown character in
\* type position or a '[' with nothing after it fails with an error
C20_OtherMalformedFails ==
  (dOut.st = "raw" /\ MalformedFrom(dOut.desc, 1) /\ dOut.res.ok) =>
    \E j \in 1..Len(dOut.desc) : dOut.desc[j] = "L" /\ ClosingAt(dOut.desc, j + 1) = 0

(***************************************************************************)
(* Claims about Request.encode with the default driver                     *)
(***************************************************************************)
\* the request was encoded both with codecType omitted and with codecType
\* naming the default
BothEncoded == sess.st = "dflt" /\ sess.at = "both"

\* C21: with codecType omitted the default driver is selected and the length
\* written is the position of the buffer less the 16 header bytes, as it is
\* with codecType naming the default, and both calls return the same bytes
C21_DefaultLength ==
  BothEncoded =>
    /\ sess.res["omitted"].driver = sess.res["explicit"].driver
    /\ sess.res["omitted"].convention = "position"
    /\ sess.res["omitted"].ok = sess.res["explicit"].ok
    /\ sess.res["omitted"].buf = sess.res["explicit"].buf

\* C21, the selection alone: with codecType omitted the driver that is
\* selected is the one codecType selects when it names the default
C21_SameDriver ==
  BothEncoded =>
    /\ sess.res["omitted"].driver = DEFAULT_REMOTING_SERIALIZATION
    /\ sess.res["explicit"].driver = DEFAULT_REMOTING_SERIALIZATION

\* C21, the bytes alone, when the len of the hessian driver counts the bytes
\* of the values written
C21_SameBytesIfPayloadLen ==
  (BothEncoded /\ sess.len = "payload") =>
    sess.res["omitted"].buf = sess.res["explicit"].buf

\* C21, the length alone: with codecType omitted the length written is the
\* position of the buffer less the header
C21_PositionConvention == BothEncoded => sess.res["omitted"].convention = "position"

(***************************************************************************)
(* Claims about the lookups and their caches                               *)
(***************************************************************************)
\* what the root passed to the last call resolves for the arguments of the
\* call, NoTarget when it resolves nothing
Resolved ==
  IF lookup.op = "getMethodInfo"
  THEN IF RootLookup(lookup.root, lookup.path[1][1]) = NoTarget THEN NoTarget
       ELSE MethodOf(RootLookup(lookup.root, lookup.path[1][1]), lookup.path[2])
  ELSE RootLookup(lookup.root, lookup.path)

\* a lookup was made
LookedUp == lookup.st = "cache" /\ lookup.op # "none"

\* C22: after any earlier calls, findType, findService and getMethodInfo
\* return what the root passed to the call resolves, and throw when that root
\* resolves nothing: nothing cached from another root is returned
C22_OwnRegistry ==
  LookedUp => /\ lookup.ok = (Resolved # NoTarget)
              /\ lookup.target = Resolved

\* C22, for the first call made after the module is loaded
C22_FirstLookup ==
  (LookedUp /\ lookup.n = 1) => /\ lookup.ok = (Resolved # NoTarget)
                                /\ lookup.target = Resolved

\* C22, as far as it holds: what a lookup returns is what some root resolves
\* for the arguments of the call
C22_SomeRegistry ==
  (LookedUp /\ lookup.ok) =>
    \E root \in Roots :
      lookup.target = (IF lookup.op = "getMethodInfo"
                       THEN MethodOf(RootLookup(root, lookup.path[1][1]), lookup.path[2])
                       ELSE RootLookup(root, lookup.path))

====
